---- MODULE Spec2Model ----
(***************************************************************************)
(* A model of python-hll: the HLL estimator (hll.py), its bit utilities    *)
(* and bit-packed register vector (util.py), and the storage-v1 codecs     *)
(* (serialization.py).                                                     *)
(*                                                                         *)
(* A 64-bit two's-complement long is modelled by the set of the positions  *)
(* (0 = least significant, 63 = sign) of its one bits, because the model   *)
(* checker's integers are 32 bits wide.  Small non-negative quantities     *)
(* (register indices, register values, byte counts) are integers.  Bytes   *)
(* are the signed integers -128..127 the code stores in its byte lists.    *)
(***************************************************************************)
EXTENDS Integers, Sequences, FiniteSets, TLC

\* ------------------------------------------------------------------------
\* Longs as bit sets

LONG_BIT_LENGTH == 64

LongBits == 0..(LONG_BIT_LENGTH - 1)

\* the long whose value is the non-negative integer n (n < 2^31)
LongOfInt(n) == {i \in 0..30 : (n \div (2^i)) % 2 = 1}

RECURSIVE IntOfLong(_)
\* the integer value of a long with no bit above bit 30 set
IntOfLong(x) ==
    IF x = {} THEN 0
    ELSE LET i == CHOOSE k \in x : TRUE IN (2^i) + IntOfLong(x \ {i})

\* x - 1 on 64-bit two's complement
LongMinusOne(x) ==
    IF x = {} THEN LongBits
    ELSE LET k == CHOOSE i \in x : \A j \in x : i <= j
         IN (x \ {k}) \cup {i \in LongBits : i < k}

\* ~x
LongNot(x) == LongBits \ x

\* signed comparison of two longs, as Python compares the ints they denote
LongLess(x, y) ==
    /\ x # y
    /\ LET d == (x \ y) \cup (y \ x)
           top == CHOOSE i \in d : \A j \in d : j <= i
       IN IF top = LONG_BIT_LENGTH - 1 THEN top \in x ELSE top \in y

\* ------------------------------------------------------------------------
\* util.py: BitUtil

LEAST_SIGNIFICANT_BIT ==
    << -1, 0, 1, 0, 2, 0, 1, 0, 3, 0, 1, 0, 2, 0, 1, 0,
       4, 0, 1, 0, 2, 0, 1, 0, 3, 0, 1, 0, 2, 0, 1, 0,
       5, 0, 1, 0, 2, 0, 1, 0, 3, 0, 1, 0, 2, 0, 1, 0,
       4, 0, 1, 0, 2, 0, 1, 0, 3, 0, 1, 0, 2, 0, 1, 0,
       6, 0, 1, 0, 2, 0, 1, 0, 3, 0, 1, 0, 2, 0, 1, 0,
       4, 0, 1, 0, 2, 0, 1, 0, 3, 0, 1, 0, 2, 0, 1, 0,
       5, 0, 1, 0, 2, 0, 1, 0, 3, 0, 1, 0, 2, 0, 1, 0,
       4, 0, 1, 0, 2, 0, 1, 0, 3, 0, 1, 0, 2, 0, 1, 0,
       7, 0, 1, 0, 2, 0, 1, 0, 3, 0, 1, 0, 2, 0, 1, 0,
       4, 0, 1, 0, 2, 0, 1, 0, 3, 0, 1, 0, 2, 0, 1, 0,
       5, 0, 1, 0, 2, 0, 1, 0, 3, 0, 1, 0, 2, 0, 1, 0,
       4, 0, 1, 0, 2, 0, 1, 0, 3, 0, 1, 0, 2, 0, 1, 0,
       6, 0, 1, 0, 2, 0, 1, 0, 3, 0, 1, 0, 2, 0, 1, 0,
       4, 0, 1, 0, 2, 0, 1, 0, 3, 0, 1, 0, 2, 0, 1, 0,
       5, 0, 1, 0, 2, 0, 1, 0, 3, 0, 1, 0, 2, 0, 1, 0,
       4, 0, 1, 0, 2, 0, 1, 0, 3, 0, 1, 0, 2, 0, 1, 0 >>

\* Java >>> on a long; a shift of 0 returns the value untouched
unsigned_right_shift_long(val, n) ==
    IF n = 0 THEN val ELSE {i - n : i \in {k \in val : k >= n}}

\* Java << on a long: bits shifted past bit 63 are lost
left_shift_long(long_x, int_y) ==
    {i + int_y : i \in {k \in long_x : k + int_y < LONG_BIT_LENGTH}}

\* Java << on an int: np.left_shift on an np.int32, for shifts of up to 31 bits.
\* A shift by 31 leaves only the sign bit, set when int_x is odd; the shorter
\* shifts the code makes stay below 2^31.
left_shift_int(int_x, int_y) ==
    IF int_y < 31 THEN int_x * (2^int_y)
    ELSE IF int_x % 2 = 1 THEN (-(2^30)) - 2^30 ELSE 0

to_signed_byte(i) == IF i <= 127 THEN i ELSE i - 256

\* the low byte of (value >>> n), as an index 0..255
LowByteAt(value, n) ==
    IntOfLong({i \in unsigned_right_shift_long(value, n) : i < 8})

\* value & mask # 0 for the mask of the `bits` low bits
LowBitsSet(value, bits) == \E i \in value : i < bits

least_significant_bit(value) ==
    IF value = {} THEN -1
    ELSE IF LowBitsSet(value, 8)  THEN LEAST_SIGNIFICANT_BIT[LowByteAt(value, 0) + 1] + 0
    ELSE IF LowBitsSet(value, 16) THEN LEAST_SIGNIFICANT_BIT[LowByteAt(value, 8) + 1] + 8
    ELSE IF LowBitsSet(value, 24) THEN LEAST_SIGNIFICANT_BIT[LowByteAt(value, 16) + 1] + 16
    ELSE IF LowBitsSet(value, 32) THEN LEAST_SIGNIFICANT_BIT[LowByteAt(value, 24) + 1] + 24
    ELSE IF LowBitsSet(value, 40) THEN LEAST_SIGNIFICANT_BIT[LowByteAt(value, 32) + 1] + 32
    ELSE IF LowBitsSet(value, 48) THEN LEAST_SIGNIFICANT_BIT[LowByteAt(value, 40) + 1] + 40
    ELSE IF LowBitsSet(value, 56) THEN LEAST_SIGNIFICANT_BIT[LowByteAt(value, 48) + 1] + 48
    ELSE LEAST_SIGNIFICANT_BIT[LowByteAt(value, 56) + 1] + 56

\* NumberUtil.log2 truncated by int(): the largest k with 2^k * den <= num
RECURSIVE IntLog2(_, _)
IntLog2(num, den) == IF 2 * den > num THEN 0 ELSE 1 + IntLog2(num, 2 * den)

\* ------------------------------------------------------------------------
\* Bytes: the signed values -128..127 held in the code's byte lists

BITS_PER_BYTE == 8

\* the bit pattern of a signed byte, as a long with bits 0..7 only
ByteBits(b) == {i \in 0..(BITS_PER_BYTE - 1) : ((b % 256) \div (2^i)) % 2 = 1}

\* Python's b | x on two signed bytes
ByteOr(b, x) == to_signed_byte(IntOfLong(ByteBits(b) \cup ByteBits(x)))

\* (1 << n) - 1 as a long
LowMask(n) == LongMinusOne(left_shift_long({0}, n))

Min(a, b) == IF a <= b THEN a ELSE b

\* ------------------------------------------------------------------------
\* serialization.py: BigEndianAscendingWordSerializer
\* byte_index is the code's 0-based index; bytes is a 1-based sequence.

NewSerializerWithSpareByte(word_length, word_count, byte_padding) ==
    [ word_length |-> word_length,
      word_count |-> word_count,
      bytes |-> [i \in 1..(((word_length * word_count) \div BITS_PER_BYTE) + 1 + byte_padding) |-> 0],
      bits_left_in_byte |-> BITS_PER_BYTE,
      byte_index |-> byte_padding,
      words_written |-> 0 ]

NewSerializer(word_length, word_count, byte_padding) ==
    LET bits_required == word_length * word_count
        leftover_bits_inc == IF bits_required % BITS_PER_BYTE # 0 THEN 1 ELSE 0
        bytes_required == (bits_required \div BITS_PER_BYTE) + leftover_bits_inc + byte_padding
    IN [ word_length |-> word_length,
         word_count |-> word_count,
         bytes |-> [i \in 1..bytes_required |-> 0],
         bits_left_in_byte |-> BITS_PER_BYTE,
         byte_index |-> byte_padding,
         words_written |-> 0 ]

\* the guard of write_word: it raises when the backing array is full
WriteWordRaises(s) == s.words_written = s.word_count

RECURSIVE WriteWordLoop(_, _, _)
\* the while loop of write_word; word is a long
WriteWordLoop(s, word, bits_left_in_word) ==
    IF bits_left_in_word <= 0 THEN s
    ELSE
      LET moved == s.bits_left_in_byte = 0
          byte_index == IF moved THEN s.byte_index + 1 ELSE s.byte_index
          bits_left_in_byte == IF moved THEN BITS_PER_BYTE ELSE s.bits_left_in_byte
          consumed_mask == IF bits_left_in_word = LONG_BIT_LENGTH THEN LongNot({})
                           ELSE LowMask(bits_left_in_word)
          number_of_bits_to_write == Min(bits_left_in_byte, bits_left_in_word)
          bits_in_byte_remaining_after_write == bits_left_in_byte - number_of_bits_to_write
          remaining_bits_of_word_to_write == word \cap consumed_mask
          bits_that_the_byte_can_accept ==
              IF bits_left_in_word > number_of_bits_to_write
              THEN unsigned_right_shift_long(remaining_bits_of_word_to_write,
                                             bits_left_in_word - bits_left_in_byte)
              ELSE remaining_bits_of_word_to_write
          aligned_bits == left_shift_long(bits_that_the_byte_can_accept,
                                          bits_in_byte_remaining_after_write)
          s2 == [s EXCEPT !.byte_index = byte_index,
                          !.bits_left_in_byte = bits_in_byte_remaining_after_write,
                          !.bytes[byte_index + 1] =
                              ByteOr(@, to_signed_byte(IntOfLong(aligned_bits)))]
      IN WriteWordLoop(s2, word, bits_left_in_word - number_of_bits_to_write)

write_word(s, word) ==
    [WriteWordLoop(s, word, s.word_length) EXCEPT !.words_written = @ + 1]

GetBytesRaisesUntilFirstWord(s) == s.words_written = 0 /\ s.word_count > 0

\* the guard of get_bytes: it raises until every word has been written
GetBytesRaises(s) == s.words_written < s.word_count

get_bytes(s) == s.bytes

RECURSIVE WriteWords(_, _)
\* write_word for each word of a sequence, in order
WriteWords(s, words) ==
    IF words = << >> THEN s ELSE WriteWords(write_word(s, Head(words)), Tail(words))

\* ------------------------------------------------------------------------
\* serialization.py: BigEndianAscendingWordDeserializer

NewDeserializerWithoutPadding(word_length, byte_padding, bytes) ==
    [ word_length |-> word_length,
      bytes |-> bytes,
      byte_padding |-> 0,
      word_count |-> (Len(bytes) * BITS_PER_BYTE) \div word_length ]

NewDeserializer(word_length, byte_padding, bytes) ==
    [ word_length |-> word_length,
      bytes |-> bytes,
      byte_padding |-> byte_padding,
      word_count |-> ((Len(bytes) - byte_padding) * BITS_PER_BYTE) \div word_length ]

TotalWordCountRoundedUp(d) ==
    ((Len(d.bytes) - d.byte_padding) * BITS_PER_BYTE + d.word_length - 1) \div d.word_length

total_word_count(d) == d.word_count

\* the bounds check of _read_word
ReadWordRaises(d, position) ==
    \/ position < 0
    \/ d.byte_padding + ((position * d.word_length + d.word_length - 1) \div BITS_PER_BYTE)
          >= Len(d.bytes)

ReadWordAt(d, position) ==
    LET first_bit_index == position * d.word_length
        first_byte_index == d.byte_padding + (first_bit_index \div BITS_PER_BYTE)
        first_byte_skip_bits == first_bit_index % BITS_PER_BYTE
        last_bit_index == first_bit_index + d.word_length - 1
        last_byte_index == d.byte_padding + (last_bit_index \div BITS_PER_BYTE)
        bits_after_byte_boundary == (last_bit_index + 1) % BITS_PER_BYTE
        last_byte_bits_to_consume ==
            IF bits_after_byte_boundary = 0 THEN BITS_PER_BYTE ELSE bits_after_byte_boundary
        bits_remaining_in_first_byte == BITS_PER_BYTE - first_byte_skip_bits
        bits_to_consume_in_first_byte == Min(bits_remaining_in_first_byte, d.word_length)
        first_byte_mask == LowMask(bits_remaining_in_first_byte)
        first_byte == unsigned_right_shift_long(
                          ByteBits(d.bytes[first_byte_index + 1]) \cap first_byte_mask,
                          bits_remaining_in_first_byte - bits_to_consume_in_first_byte)
        middle_byte_count == last_byte_index - first_byte_index - 1
        Middle[i \in 0..8] ==
            IF i = 0 THEN first_byte
            ELSE left_shift_long(Middle[i - 1], BITS_PER_BYTE)
                   \cup ByteBits(d.bytes[first_byte_index + i + 1])
        last_byte == unsigned_right_shift_long(ByteBits(d.bytes[last_byte_index + 1]),
                                               BITS_PER_BYTE - last_byte_bits_to_consume)
    IN IF first_byte_index = last_byte_index THEN first_byte
       ELSE left_shift_long(Middle[middle_byte_count], last_byte_bits_to_consume)
              \cup last_byte

RECURSIVE ReadWords(_, _, _)
\* read_word called n times from current_word_index = from: the words in order
ReadWords(d, from, n) ==
    IF n <= 0 THEN << >> ELSE << ReadWordAt(d, from) >> \o ReadWords(d, from + 1, n - 1)

\* ------------------------------------------------------------------------
\* util.py: BitVector.  words is a 1-based sequence of longs (the code's
\* word index k is words[k + 1]); register values are passed as integers.

LOG2_BITS_PER_WORD == 6

BITS_PER_WORD == left_shift_int(1, LOG2_BITS_PER_WORD)

BITS_PER_WORD_MASK == BITS_PER_WORD - 1

NewBitVector(width, count) ==
    [ words |-> [i \in 1..(((width * count) + BITS_PER_WORD_MASK) \div BITS_PER_WORD) |-> {}],
      register_width |-> width,
      count |-> count,
      register_mask |-> LowMask(width) ]

\* the value read by get_register and by set_max_register, as a long
RegisterBits(bv, register_index) ==
    LET bit_index == register_index * bv.register_width
        first_word_index == bit_index \div BITS_PER_WORD
        second_word_index == (bit_index + bv.register_width - 1) \div BITS_PER_WORD
        bit_remainder == bit_index % BITS_PER_WORD
    IN IF first_word_index = second_word_index
       THEN unsigned_right_shift_long(bv.words[first_word_index + 1], bit_remainder)
              \cap bv.register_mask
       ELSE unsigned_right_shift_long(bv.words[first_word_index + 1], bit_remainder)
              \cup (left_shift_long(bv.words[second_word_index + 1],
                                    BITS_PER_WORD - bit_remainder)
                      \cap bv.register_mask)

get_register(bv, register_index) == IntOfLong(RegisterBits(bv, register_index))

WriteRegisterWithinFirstWord(bv, register_index, value) ==
    LET bit_index == register_index * bv.register_width
        first_word_index == bit_index \div BITS_PER_WORD
        bit_remainder == bit_index % BITS_PER_WORD
    IN [bv EXCEPT !.words[first_word_index + 1] =
           (@ \cap LongNot(left_shift_long(bv.register_mask, bit_remainder)))
              \cup left_shift_long(LongOfInt(value), bit_remainder)]

\* the clear-then-set of set_register, repeated verbatim in set_max_register
WriteRegister(bv, register_index, value) ==
    LET bit_index == register_index * bv.register_width
        first_word_index == bit_index \div BITS_PER_WORD
        second_word_index == (bit_index + bv.register_width - 1) \div BITS_PER_WORD
        bit_remainder == bit_index % BITS_PER_WORD
        v == LongOfInt(value)
    IN IF first_word_index = second_word_index
       THEN [bv EXCEPT !.words[first_word_index + 1] =
                (@ \cap LongNot(left_shift_long(bv.register_mask, bit_remainder)))
                   \cup left_shift_long(v, bit_remainder)]
       ELSE [bv EXCEPT !.words[first_word_index + 1] =
                (@ \cap LongMinusOne(left_shift_long({0}, bit_remainder)))
                   \cup left_shift_long(v, bit_remainder),
                       !.words[second_word_index + 1] =
                (@ \cap LongNot(unsigned_right_shift_long(bv.register_mask,
                                                          BITS_PER_WORD - bit_remainder)))
                   \cup unsigned_right_shift_long(v, BITS_PER_WORD - bit_remainder)]

set_register(bv, register_index, value) == WriteRegister(bv, register_index, value)

\* the vector after set_max_register
set_max_register(bv, register_index, value) ==
    IF value > get_register(bv, register_index)
    THEN WriteRegister(bv, register_index, value)
    ELSE bv

SetMaxRegisterResultIfGreater(bv, register_index, value) ==
    value > get_register(bv, register_index)

\* the boolean set_max_register returns
SetMaxRegisterResult(bv, register_index, value) ==
    value >= get_register(bv, register_index)

RECURSIVE FillFrom(_, _, _)
FillFrom(bv, i, value) ==
    IF i >= bv.count THEN bv ELSE FillFrom(set_register(bv, i, value), i + 1, value)

FillNothing(bv, value) == bv

fill(bv, value) == FillFrom(bv, 0, value)

\* util.py: LongIterator
NewLongIterator(bv) ==
    [ register_index |-> 0,
      word_index |-> 0,
      remaining_word_bits |-> BITS_PER_WORD,
      word |-> bv.words[1] ]

IteratorNextWithinWord(bv, it) ==
    IF it.remaining_word_bits >= bv.register_width
    THEN << IntOfLong(it.word \cap bv.register_mask),
            [it EXCEPT !.word = unsigned_right_shift_long(it.word, bv.register_width),
                       !.remaining_word_bits = @ - bv.register_width,
                       !.register_index = @ + 1] >>
    ELSE LET word_index == it.word_index + 1
         IN << IntOfLong(it.word \cap bv.register_mask),
               [it EXCEPT !.word_index = word_index,
                          !.word = unsigned_right_shift_long(
                                       bv.words[word_index + 1],
                                       bv.register_width - it.remaining_word_bits),
                          !.remaining_word_bits = @ + BITS_PER_WORD - bv.register_width,
                          !.register_index = @ + 1] >>

\* LongIterator.next: the pair <<register, iterator after the call>>
IteratorNext(bv, it) ==
    IF it.remaining_word_bits >= bv.register_width
    THEN << IntOfLong(it.word \cap bv.register_mask),
            [it EXCEPT !.word = unsigned_right_shift_long(it.word, bv.register_width),
                       !.remaining_word_bits = @ - bv.register_width,
                       !.register_index = @ + 1] >>
    ELSE LET word_index == it.word_index + 1
         IN << IntOfLong((it.word \cup left_shift_long(bv.words[word_index + 1],
                                                       it.remaining_word_bits))
                            \cap bv.register_mask),
               [it EXCEPT !.word_index = word_index,
                          !.word = unsigned_right_shift_long(
                                       bv.words[word_index + 1],
                                       bv.register_width - it.remaining_word_bits),
                          !.remaining_word_bits = @ + BITS_PER_WORD - bv.register_width,
                          !.register_index = @ + 1] >>

RECURSIVE IterateFrom(_, _)
IterateFrom(bv, it) ==
    IF it.register_index >= bv.count THEN << >>
    ELSE LET r == IteratorNext(bv, it) IN << r[1] >> \o IterateFrom(bv, r[2])

\* the registers a register_iterator() yields, in order
register_iterator(bv) == IterateFrom(bv, NewLongIterator(bv))

\* BitVector.get_register_contents: every register written to the serializer
get_register_contents(bv, serializer) ==
    LET regs == register_iterator(bv)
    IN WriteWords(serializer, [k \in 1..Len(regs) |-> LongOfInt(regs[k])])

\* ------------------------------------------------------------------------
\* hlltype.py: HLLType

EMPTY == 1

EXPLICIT == 2

SPARSE == 3

FULL == 4

UNDEFINED == 5

\* ------------------------------------------------------------------------
\* hllutil.py: HLLUtil

\* PW_MASK, indexed by register width 0..8 (here 1..9): the longs
\* -2^63, -1, -4, -64, -16384, -2^30, -2^62, -2^62, -2^62
PW_MASK ==
    << {63}, 0..63, 2..63, 6..63, 14..63, 30..63, 62..63, 62..63, 62..63 >>

PwMaxMaskNone(register_size_in_bits) == {}

pw_max_mask(register_size_in_bits) == PW_MASK[register_size_in_bits + 1]

\* ------------------------------------------------------------------------
\* hll.py: HLL.  An estimator is a record of its parameters, computed
\* constants, type and three storage attributes; an attribute that is None
\* (or was never assigned) is << >>, one that holds storage x is << x >>.
\* A dict is a function from its keys, a set of longs a set of bit sets.

MINIMUM_LOG2M_PARAM == 4

MAXIMUM_LOG2M_PARAM == 30

MINIMUM_REGWIDTH_PARAM == 1

MAXIMUM_REGWIDTH_PARAM == 8

MINIMUM_EXPTHRESH_PARAM == -1

MAXIMUM_EXPTHRESH_PARAM == 18

MAXIMUM_EXPLICIT_THRESHOLD == left_shift_int(1, MAXIMUM_EXPTHRESH_PARAM - 1)

None == << >>

\* the first statement of __init__ that raises, in the order of the code: the
\* test of log2m, the test of regwidth, HLLUtil.alpha_m_squared(m) for m < 16,
\* the else branch of the expthresh cases; "none" when the estimator is built
FirstRaise(log2m, regwidth, expthresh) ==
    IF log2m < MINIMUM_LOG2M_PARAM \/ log2m > MAXIMUM_EXPLICIT_THRESHOLD THEN "log2m"
    ELSE IF regwidth < MINIMUM_REGWIDTH_PARAM \/ regwidth > MAXIMUM_REGWIDTH_PARAM
         THEN "regwidth"
    ELSE IF left_shift_int(1, log2m) < 16 THEN "alpha_m_squared"
    ELSE IF ~(expthresh = -1 \/ expthresh = 0
                \/ (0 < expthresh /\ expthresh <= MAXIMUM_EXPTHRESH_PARAM))
         THEN "expthresh"
    ELSE "none"

\* the checks of __init__ that raise
ConstructorRaises(log2m, regwidth, expthresh) ==
    FirstRaise(log2m, regwidth, expthresh) # "none"

\* _initialize_storage: sets the type and allocates that type's storage
InitializeStorage(h, type) ==
    IF type = EXPLICIT THEN [h EXCEPT !.type = type, !.explicit_storage = << {} >>]
    ELSE IF type = SPARSE
      THEN [h EXCEPT !.type = type, !.sparse_probabilistic_storage = << << >> >>]
    ELSE IF type = FULL
      THEN [h EXCEPT !.type = type,
                     !.probabilistic_storage = << NewBitVector(h.regwidth, h.m) >>]
    ELSE [h EXCEPT !.type = type]

\* HLL.__init__ for arguments that pass its checks
NewHLL(log2m, regwidth, expthresh, sparseon, type) ==
    LET m == left_shift_int(1, log2m)
        full_representation_size == (regwidth * m + 7) \div 8
        num_longs == full_representation_size \div 8
        short_word_length == regwidth + log2m
        h == [ log2m |-> log2m,
               regwidth |-> regwidth,
               m |-> m,
               explicit_auto |-> (expthresh = -1),
               explicit_off |-> (expthresh = 0),
               explicit_threshold |->
                   IF expthresh = -1
                   THEN (IF num_longs > MAXIMUM_EXPLICIT_THRESHOLD
                         THEN MAXIMUM_EXPLICIT_THRESHOLD ELSE num_longs)
                   ELSE IF expthresh = 0 THEN 0
                   ELSE left_shift_int(1, expthresh - 1),
               short_word_length |-> short_word_length,
               sparse_off |-> ~sparseon,
               sparse_threshold |->
                   IF ~sparseon THEN 0
                   ELSE left_shift_int(1, IntLog2(m * regwidth, short_word_length)),
               type |-> type,
               explicit_storage |-> None,
               sparse_probabilistic_storage |-> None,
               probabilistic_storage |-> None ]
    IN InitializeStorage(h, type)

m_bits_mask(h) == LongOfInt(h.m - 1)

value_mask(h) == left_shift_int(1, h.regwidth) - 1

\* dict.get(key, 0)
DictGet(d, key) == IF key \in DOMAIN d THEN d[key] ELSE 0

\* d[key] = value
DictPut(d, key, value) ==
    [k \in (DOMAIN d) \cup {key} |-> IF k = key THEN value ELSE d[k]]

PWWithoutZeroCase(h, raw_value) ==
    LET sub_stream_value == unsigned_right_shift_long(raw_value, h.log2m)
    IN to_signed_byte(1 + least_significant_bit(sub_stream_value
                                                  \cup pw_max_mask(h.regwidth)))

\* p(w) as both _add_raw_sparse_probabilistic and _add_raw_probabilistic compute it
PW(h, raw_value) ==
    LET sub_stream_value == unsigned_right_shift_long(raw_value, h.log2m)
    IN IF sub_stream_value = {} THEN 0
       ELSE to_signed_byte(1 + least_significant_bit(sub_stream_value
                                                       \cup pw_max_mask(h.regwidth)))

\* the register index j of a raw value
RegisterIndex(h, raw_value) == IntOfLong(raw_value \cap m_bits_mask(h))

\* _add_raw_sparse_probabilistic
AddRawSparseProbabilistic(h, raw_value) ==
    LET p_w == PW(h, raw_value)
        j == RegisterIndex(h, raw_value)
        current_value == DictGet(h.sparse_probabilistic_storage[1], j)
    IN IF p_w = 0 THEN h
       ELSE IF p_w > current_value
         THEN [h EXCEPT !.sparse_probabilistic_storage = << DictPut(@[1], j, p_w) >>]
         ELSE h

\* _add_raw_probabilistic
AddRawProbabilistic(h, raw_value) ==
    LET p_w == PW(h, raw_value)
        j == RegisterIndex(h, raw_value)
    IN IF p_w = 0 THEN h
       ELSE [h EXCEPT !.probabilistic_storage = << set_max_register(@[1], j, p_w) >>]

RECURSIVE AddAllSparseButOne(_, _)
AddAllSparseButOne(h, values) ==
    IF Cardinality(values) <= 1 THEN h
    ELSE LET v == CHOOSE x \in values : TRUE
         IN AddAllSparseButOne(AddRawSparseProbabilistic(h, v), values \ {v})

RECURSIVE AddAllSparse(_, _)
\* for value in values: self._add_raw_sparse_probabilistic(value)
AddAllSparse(h, values) ==
    IF values = {} THEN h
    ELSE LET v == CHOOSE x \in values : TRUE
         IN AddAllSparse(AddRawSparseProbabilistic(h, v), values \ {v})

RECURSIVE AddAllProbabilistic(_, _)
\* for value in values: self._add_raw_probabilistic(value)
AddAllProbabilistic(h, values) ==
    IF values = {} THEN h
    ELSE LET v == CHOOSE x \in values : TRUE
         IN AddAllProbabilistic(AddRawProbabilistic(h, v), values \ {v})

RECURSIVE SetMaxAll(_, _, _)
\* for register_index in d.keys(): bv.set_max_register(register_index, d[register_index])
SetMaxAll(bv, d, keys) ==
    IF keys = {} THEN bv
    ELSE LET k == CHOOSE x \in keys : TRUE
         IN SetMaxAll(set_max_register(bv, k, d[k]), d, keys \ {k})

PromoteSparseToFullKeepingDict(h) ==
    LET f == InitializeStorage(h, FULL)
        d == h.sparse_probabilistic_storage[1]
    IN [f EXCEPT !.probabilistic_storage = << SetMaxAll(@[1], d, DOMAIN d) >>]

PromoteSparseToFullWithoutCopy(h) ==
    [InitializeStorage(h, FULL) EXCEPT !.sparse_probabilistic_storage = None]

\* the SPARSE to FULL promotion that add_raw and _homogeneous_union share:
\* allocate the vector, copy every sparse register, drop the dict
PromoteSparseToFull(h) ==
    LET f == InitializeStorage(h, FULL)
        d == h.sparse_probabilistic_storage[1]
    IN [f EXCEPT !.probabilistic_storage = << SetMaxAll(@[1], d, DOMAIN d) >>,
                 !.sparse_probabilistic_storage = None]

FirstTypeUnlessOff(h) ==
    IF ~h.explicit_off THEN EXPLICIT
    ELSE IF ~h.sparse_off THEN SPARSE
    ELSE FULL

\* the type add_raw gives an EMPTY estimator
FirstType(h) ==
    IF h.explicit_threshold > 0 THEN EXPLICIT
    ELSE IF ~h.sparse_off THEN SPARSE
    ELSE FULL

ExplicitAtThreshold(h, values) == Cardinality(values) >= h.explicit_threshold

SparseAtThreshold(h, d) == Cardinality(DOMAIN d) >= h.sparse_threshold

ExplicitOverThresholdLate(h, values) == Cardinality(values) > h.explicit_threshold + 1

\* add_raw's "promotion, if necessary" test of the EXPLICIT branch
ExplicitOverThreshold(h, values) == Cardinality(values) > h.explicit_threshold

\* add_raw's "promotion, if necessary" test of the SPARSE branch
SparseOverThreshold(h, d) == Cardinality(DOMAIN d) > h.sparse_threshold

\* HLL.add_raw
add_raw(h, raw_value) ==
    IF h.type = EMPTY THEN
        IF FirstType(h) = EXPLICIT
        THEN [InitializeStorage(h, EXPLICIT) EXCEPT !.explicit_storage = << {raw_value} >>]
        ELSE IF FirstType(h) = SPARSE
          THEN AddRawSparseProbabilistic(InitializeStorage(h, SPARSE), raw_value)
          ELSE AddRawProbabilistic(InitializeStorage(h, FULL), raw_value)
    ELSE IF h.type = EXPLICIT THEN
        LET values == h.explicit_storage[1] \cup {raw_value}
            e == [h EXCEPT !.explicit_storage = << values >>]
        IN IF ExplicitOverThreshold(h, values)
           THEN (IF ~h.sparse_off
                 THEN [AddAllSparse(InitializeStorage(e, SPARSE), values)
                          EXCEPT !.explicit_storage = None]
                 ELSE [AddAllProbabilistic(InitializeStorage(e, FULL), values)
                          EXCEPT !.explicit_storage = None])
           ELSE e
    ELSE IF h.type = SPARSE THEN
        LET s == AddRawSparseProbabilistic(h, raw_value)
        IN IF SparseOverThreshold(h, s.sparse_probabilistic_storage[1])
           THEN PromoteSparseToFull(s)
           ELSE s
    ELSE AddRawProbabilistic(h, raw_value)

RECURSIVE AddRawAllButLast(_, _)
AddRawAllButLast(h, order) ==
    IF Len(order) <= 1 THEN h
    ELSE AddRawAllButLast(add_raw(h, Head(order)), Tail(order))

RECURSIVE AddRawAll(_, _)
\* for value in order: self.add_raw(value)
AddRawAll(h, order) ==
    IF order = << >> THEN h ELSE AddRawAll(add_raw(h, Head(order)), Tail(order))

ClearToEmpty(h) ==
    [h EXCEPT !.type = EMPTY, !.explicit_storage = None,
              !.sparse_probabilistic_storage = None, !.probabilistic_storage = None]

\* HLL.clear
clear(h) ==
    IF h.type = EXPLICIT THEN [h EXCEPT !.explicit_storage = << {} >>]
    ELSE IF h.type = SPARSE THEN [h EXCEPT !.sparse_probabilistic_storage = << << >> >>]
    ELSE IF h.type = FULL THEN [h EXCEPT !.probabilistic_storage = << fill(@[1], 0) >>]
    ELSE h

\* ------------------------------------------------------------------------
\* hll.py: union.  The loops "for value in <set>: self.add_raw(value)" visit
\* the set in the order Python's set iteration yields, which the code does
\* not control: `order` is that order, any enumeration of the set.

\* every enumeration of a finite set as a sequence
Orders(S) ==
    {f \in [1..Cardinality(S) -> S] : \A i, j \in 1..Cardinality(S) : f[i] = f[j] => i = j}

\* copy every register of the dict d into a fresh FULL storage of h
FullFromSparse(h, d) ==
    LET f == InitializeStorage(h, FULL)
    IN [f EXCEPT !.probabilistic_storage = << SetMaxAll(@[1], d, DOMAIN d) >>]

HeterogeneousUnionForEmptyHLLCloning(self, other, order) ==
    IF other.type = EXPLICIT THEN
        IF Cardinality(other.explicit_storage[1]) <= self.explicit_threshold
        THEN [self EXCEPT !.type = EXPLICIT, !.explicit_storage = other.explicit_storage]
        ELSE AddRawAll(InitializeStorage(self, IF ~self.sparse_off THEN SPARSE ELSE FULL),
                       order)
    ELSE IF other.type = SPARSE THEN
        [self EXCEPT !.type = SPARSE,
                     !.sparse_probabilistic_storage = other.sparse_probabilistic_storage]
    ELSE [self EXCEPT !.type = FULL, !.probabilistic_storage = other.probabilistic_storage]

\* _heterogeneous_union_for_empty_hll
HeterogeneousUnionForEmptyHLL(self, other, order) ==
    IF other.type = EXPLICIT THEN
        IF Cardinality(other.explicit_storage[1]) <= self.explicit_threshold
        THEN [self EXCEPT !.type = EXPLICIT, !.explicit_storage = other.explicit_storage]
        ELSE AddRawAll(InitializeStorage(self, IF ~self.sparse_off THEN SPARSE ELSE FULL),
                       order)
    ELSE IF other.type = SPARSE THEN
        IF ~self.sparse_off
        THEN [self EXCEPT !.type = SPARSE,
                          !.sparse_probabilistic_storage = other.sparse_probabilistic_storage]
        ELSE FullFromSparse(self, other.sparse_probabilistic_storage[1])
    ELSE [self EXCEPT !.type = FULL, !.probabilistic_storage = other.probabilistic_storage]

\* _heterogeneous_union_for_non_empty_hll
HeterogeneousUnionForNonEmptyHLL(self, other, order) ==
    IF self.type = EXPLICIT THEN
        LET clone ==
              IF other.type = SPARSE
              THEN (IF ~self.sparse_off
                    THEN [self EXCEPT !.type = SPARSE,
                                      !.sparse_probabilistic_storage =
                                          other.sparse_probabilistic_storage]
                    ELSE FullFromSparse(self, other.sparse_probabilistic_storage[1]))
              ELSE [self EXCEPT !.type = FULL,
                                !.probabilistic_storage = other.probabilistic_storage]
        IN [AddRawAll(clone, order) EXCEPT !.explicit_storage = None]
    ELSE IF self.type = SPARSE THEN
        IF other.type = EXPLICIT THEN AddRawAll(self, order)
        ELSE LET d == self.sparse_probabilistic_storage[1]
             IN [self EXCEPT !.type = FULL,
                             !.probabilistic_storage =
                                 << SetMaxAll(other.probabilistic_storage[1], d, DOMAIN d) >>,
                             !.sparse_probabilistic_storage = None]
    ELSE
        IF other.type = EXPLICIT THEN AddRawAll(self, order)
        ELSE LET d == other.sparse_probabilistic_storage[1]
             IN [self EXCEPT !.probabilistic_storage = << SetMaxAll(@[1], d, DOMAIN d) >>]

HeterogenousUnionNoOpOnEmpty(self, other, order) ==
    IF self.type = EMPTY \/ other.type = EMPTY THEN self
    ELSE HeterogeneousUnionForNonEmptyHLL(self, other, order)

\* _heterogenous_union
HeterogenousUnion(self, other, order) ==
    IF self.type = EMPTY THEN HeterogeneousUnionForEmptyHLL(self, other, order)
    ELSE IF other.type = EMPTY THEN self
    ELSE HeterogeneousUnionForNonEmptyHLL(self, other, order)

MergeSparseTheirsOnly(mine, theirs) ==
    [k \in DOMAIN theirs |-> IF theirs[k] > DictGet(mine, k) THEN theirs[k] ELSE mine[k]]

\* the SPARSE branch's merge loop of _homogeneous_union
MergeSparse(mine, theirs) ==
    LET raised == {k \in DOMAIN theirs : theirs[k] > DictGet(mine, k)}
    IN [k \in (DOMAIN mine) \cup raised |-> IF k \in raised THEN theirs[k] ELSE mine[k]]

RECURSIVE MergeFullButLast(_, _, _, _)
MergeFullButLast(mine, theirs, i, m) ==
    IF i >= m - 1 THEN mine
    ELSE MergeFullButLast(set_max_register(mine, i, get_register(theirs, i)), theirs, i + 1, m)

RECURSIVE MergeFullFrom(_, _, _, _)
\* the FULL branch's loop of _homogeneous_union, from register i up to m - 1
MergeFullFrom(mine, theirs, i, m) ==
    IF i >= m THEN mine
    ELSE MergeFullFrom(set_max_register(mine, i, get_register(theirs, i)), theirs, i + 1, m)

\* _homogeneous_union
HomogeneousUnion(self, other, order) ==
    IF self.type = EMPTY THEN self
    ELSE IF self.type = EXPLICIT THEN AddRawAll(self, order)
    ELSE IF self.type = SPARSE THEN
        LET merged == [self EXCEPT !.sparse_probabilistic_storage =
                          << MergeSparse(@[1], other.sparse_probabilistic_storage[1]) >>]
        IN IF Cardinality(DOMAIN merged.sparse_probabilistic_storage[1]) > self.sparse_threshold
           THEN PromoteSparseToFull(merged)
           ELSE merged
    ELSE [self EXCEPT !.probabilistic_storage =
              << MergeFullFrom(@[1], other.probabilistic_storage[1], 0, self.m) >>]

\* HLL.union: self after self.union(other), for one iteration order
union(self, other, order) ==
    IF self.type = other.type THEN HomogeneousUnion(self, other, order)
    ELSE HeterogenousUnion(self, other, order)

\* the set that union iterates with add_raw, if it iterates one
UnionIterated(self, other) ==
    IF self.type = EXPLICIT /\ other.type \in {SPARSE, FULL} THEN self.explicit_storage[1]
    ELSE IF other.type = EXPLICIT /\ self.type # EMPTY THEN other.explicit_storage[1]
    ELSE IF other.type = EXPLICIT /\ self.type = EMPTY
            /\ Cardinality(other.explicit_storage[1]) > self.explicit_threshold
      THEN other.explicit_storage[1]
    ELSE {}

UnionOrders(self, other) == Orders(UnionIterated(self, other))

\* ------------------------------------------------------------------------
\* hll.py / hllutil.py: cardinality.  The floating-point estimator is
\* evaluated exactly: with K the largest register value, the indicator
\* function sum(2^-M[j]) is N / 2^K for the integer N = sum(2^(K - M[j])),
\* alpha_m_squared is the rational num / den, and the two comparisons are
\* cross-multiplied.  The two logarithmic corrections are tabulated, rounded
\* up as cardinality() rounds them, for m = 16 registers.

\* HLLUtil.alpha_m_squared as << numerator, denominator >>
alpha_m_squared(m) ==
    IF m = 16 \/ m = 32 THEN << 673 * m * m, 1000 >>
    ELSE IF m = 64 THEN << 709 * m * m, 1000 >>
    ELSE << 7213 * m * m * m, 10 * (1000 * m + 1079) >>

\* ceil(HLLUtil.small_estimator(16, number_of_zeroes)), number_of_zeroes in 1..16
SMALL_ESTIMATOR_CEIL ==
    << 45, 34, 27, 23, 19, 16, 14, 12, 10, 8, 6, 5, 4, 3, 2, 0 >>

\* ceil(HLLUtil.large_estimator(4, regwidth, alpha_m_squared(16) / (N / 2^K))),
\* 0 where the logarithm raises ValueError; entry regwidth, then N - 15 (for
\* regwidth 3 up to N = 646, the last N whose estimator is over the cutoff)
LARGE_ESTIMATOR_CEIL ==
    << << 0, 0, 0, 0, 0, 0, 62, 45, 37, 32, 29, 26, 24, 22, 21, 19, 18 >>,
       << 0, 0, 0, 0, 0, 0, 247, 177, 146, 127, 113, 103, 94, 87, 81, 76, 72, 68, 65,
          62, 59, 56, 54, 52, 50, 48, 47, 45, 44, 42, 41, 40, 39, 38, 37, 36, 35, 34,
          33, 32, 32, 31, 30, 30, 29, 28, 28, 27, 27, 26, 26, 25, 25, 24, 24, 24, 23,
          23, 23, 22, 22, 21, 21, 21, 21, 20, 20, 20, 19, 19, 19, 19, 18, 18, 18, 18,
          18, 17, 17, 17, 17, 17, 16, 16, 16, 16, 16, 16, 15, 15, 15, 15, 15, 15, 14,
          14, 14, 14, 14, 14, 14, 14, 13, 13, 13, 13, 13, 13, 13, 13, 12, 12, 12 >>,
       << 0, 0, 0, 0, 0, 0, 3952, 2821, 2331, 2024, 1805, 1636, 1502, 1390, 1296,
          1215, 1145, 1083, 1028, 979, 934, 894, 857, 823, 792, 763, 737, 712, 689,
          667, 647, 628, 610, 593, 577, 562, 548, 534, 522, 509, 498, 486, 476, 466,
          456, 446, 437, 429, 421, 413, 405, 398, 390, 384, 377, 371, 364, 358, 353,
          347, 342, 336, 331, 326, 322, 317, 312, 308, 304, 300, 296, 292, 288, 284,
          281, 277, 274, 270, 267, 264, 261, 258, 255, 252, 249, 246, 243, 241, 238,
          236, 233, 231, 228, 226, 224, 221, 219, 217, 215, 213, 211, 209, 207, 205,
          203, 201, 199, 198, 196, 194, 192, 191, 189, 188, 186, 184, 183, 181, 180,
          178, 177, 176, 174, 173, 172, 170, 169, 168, 166, 165, 164, 163, 162, 160,
          159, 158, 157, 156, 155, 154, 153, 152, 151, 150, 149, 148, 147, 146, 145,
          144, 143, 142, 141, 140, 139, 138, 137, 137, 136, 135, 134, 133, 133, 132,
          131, 130, 129, 129, 128, 127, 127, 126, 125, 124, 124, 123, 122, 122, 121,
          120, 120, 119, 118, 118, 117, 117, 116, 115, 115, 114, 114, 113, 112, 112,
          111, 111, 110, 110, 109, 109, 108, 108, 107, 106, 106, 105, 105, 104, 104,
          104, 103, 103, 102, 102, 101, 101, 100, 100, 99, 99, 98, 98, 98, 97, 97,
          96, 96, 96, 95, 95, 94, 94, 94, 93, 93, 92, 92, 92, 91, 91, 90, 90, 90,
          89, 89, 89, 88, 88, 88, 87, 87, 87, 86, 86, 86, 85, 85, 85, 84, 84, 84,
          83, 83, 83, 82, 82, 82, 82, 81, 81, 81, 80, 80, 80, 80, 79, 79, 79, 78,
          78, 78, 78, 77, 77, 77, 77, 76, 76, 76, 75, 75, 75, 75, 74, 74, 74, 74,
          73, 73, 73, 73, 73, 72, 72, 72, 72, 71, 71, 71, 71, 70, 70, 70, 70, 70,
          69, 69, 69, 69, 69, 68, 68, 68, 68, 68, 67, 67, 67, 67, 67, 66, 66, 66,
          66, 66, 65, 65, 65, 65, 65, 64, 64, 64, 64, 64, 63, 63, 63, 63, 63, 63,
          62, 62, 62, 62, 62, 62, 61, 61, 61, 61, 61, 61, 60, 60, 60, 60, 60, 60,
          59, 59, 59, 59, 59, 59, 59, 58, 58, 58, 58, 58, 58, 57, 57, 57, 57, 57,
          57, 57, 56, 56, 56, 56, 56, 56, 56, 55, 55, 55, 55, 55, 55, 55, 55, 54,
          54, 54, 54, 54, 54, 54, 53, 53, 53, 53, 53, 53, 53, 53, 52, 52, 52, 52,
          52, 52, 52, 52, 52, 51, 51, 51, 51, 51, 51, 51, 51, 50, 50, 50, 50, 50,
          50, 50, 50, 50, 49, 49, 49, 49, 49, 49, 49, 49, 49, 49, 48, 48, 48, 48,
          48, 48, 48, 48, 48, 48, 47, 47, 47, 47, 47, 47, 47, 47, 47, 47, 46, 46,
          46, 46, 46, 46, 46, 46, 46, 46, 45, 45, 45, 45, 45, 45, 45, 45, 45, 45,
          45, 45, 44, 44, 44, 44, 44, 44, 44, 44, 44, 44, 44, 43, 43, 43, 43, 43,
          43, 43, 43, 43, 43, 43, 43, 42, 42, 42, 42, 42, 42, 42, 42, 42, 42, 42,
          42, 42, 41, 41, 41, 41, 41, 41, 41, 41, 41, 41, 41, 41, 41, 41, 40, 40,
          40, 40, 40, 40, 40, 40, 40, 40, 40, 40, 40, 40, 39, 39, 39, 39, 39, 39,
          39, 39, 39, 39, 39, 39, 39, 39, 39, 38, 38, 38, 38, 38, 38, 38, 38, 38,
          38, 38, 38, 38, 38, 38, 37, 37, 37, 37, 37, 37, 37, 37, 37, 37, 37, 37,
          37, 37, 37, 37, 37, 36, 36, 36, 36, 36, 36, 36, 36, 36, 36, 36, 36, 36,
          36, 36, 36, 36, 35, 35, 35, 35, 35, 35 >> >>

\* TWO_TO_L[(REG_WIDTH_INDEX_MULTIPLIER * regwidth) + log2m]
TwoToL(log2m, regwidth) == 2^((left_shift_int(1, regwidth) - 1) - 1 + log2m)

RECURSIVE SumSeq(_)
SumSeq(q) == IF q = << >> THEN 0 ELSE Head(q) + SumSeq(Tail(q))

AlgorithmCardinalitySmallWithZeroes(h, regs) ==
    LET K == value_mask(h)
        N == SumSeq([j \in 1..Len(regs) |-> 2^(K - regs[j])])
        number_of_zeroes == Cardinality({j \in 1..Len(regs) : regs[j] = 0})
        num == alpha_m_squared(h.m)[1] * (2^K)
        den == alpha_m_squared(h.m)[2] * N
    IN IF number_of_zeroes # 0
       THEN SMALL_ESTIMATOR_CEIL[number_of_zeroes]
       ELSE IF 30 * num <= TwoToL(h.log2m, h.regwidth) * den
         THEN (num + den - 1) \div den
         ELSE LARGE_ESTIMATOR_CEIL[h.regwidth][N - 15]

\* ceil() of what _sparse_probabilistic_algorithm_cardinality and
\* _full_probabilistic_algorithm_cardinality return for the registers regs
AlgorithmCardinality(h, regs) ==
    LET K == value_mask(h)
        N == SumSeq([j \in 1..Len(regs) |-> 2^(K - regs[j])])
        number_of_zeroes == Cardinality({j \in 1..Len(regs) : regs[j] = 0})
        num == alpha_m_squared(h.m)[1] * (2^K)
        den == alpha_m_squared(h.m)[2] * N
    IN IF number_of_zeroes # 0 /\ 2 * num < 5 * h.m * den
       THEN SMALL_ESTIMATOR_CEIL[number_of_zeroes]
       ELSE IF 30 * num <= TwoToL(h.log2m, h.regwidth) * den
         THEN (num + den - 1) \div den
         ELSE LARGE_ESTIMATOR_CEIL[h.regwidth][N - 15]

\* the registers 0..m-1 of a SPARSE estimator, absent ones as 0
SparseRegisters(h) ==
    [j \in 1..h.m |-> DictGet(h.sparse_probabilistic_storage[1], j - 1)]

CardinalityExplicitAsEmpty(h) ==
    IF h.type \in {EMPTY, EXPLICIT} THEN 0
    ELSE IF h.type = SPARSE THEN AlgorithmCardinality(h, SparseRegisters(h))
    ELSE AlgorithmCardinality(h, register_iterator(h.probabilistic_storage[1]))

\* HLL.cardinality
cardinality(h) ==
    IF h.type = EMPTY THEN 0
    ELSE IF h.type = EXPLICIT THEN Cardinality(h.explicit_storage[1])
    ELSE IF h.type = SPARSE THEN AlgorithmCardinality(h, SparseRegisters(h))
    ELSE AlgorithmCardinality(h, register_iterator(h.probabilistic_storage[1]))

\* ------------------------------------------------------------------------
\* serialization.py: SerializationUtil and SchemaVersionOne

REGISTER_WIDTH_BITS == 3

REGISTER_WIDTH_MASK == left_shift_int(1, REGISTER_WIDTH_BITS) - 1

LOG2_REGISTER_COUNT_BITS == 5

LOG2_REGISTER_COUNT_MASK == left_shift_int(1, LOG2_REGISTER_COUNT_BITS) - 1

EXPLICIT_CUTOFF_BITS == 6

EXPLICIT_CUTOFF_MASK == left_shift_int(1, EXPLICIT_CUTOFF_BITS) - 1

NIBBLE_BITS == 4

NIBBLE_MASK == left_shift_int(1, NIBBLE_BITS) - 1

SCHEMA_VERSION == 1

HEADER_BYTE_COUNT == 3

EXPLICIT_OFF == 0

EXPLICIT_AUTO == 63

TYPE_ORDINALS == << UNDEFINED, EMPTY, EXPLICIT, SPARSE, FULL >>

\* a & b and a | b on non-negative ints
IntAnd(a, b) == IntOfLong(LongOfInt(a) \cap LongOfInt(b))

IntOr(a, b) == IntOfLong(LongOfInt(a) \cup LongOfInt(b))

\* byte & mask for a signed byte and a mask 0..255
ByteAnd(b, mask) == IntOfLong(ByteBits(b) \cap LongOfInt(mask))

\* Java >>> on a byte: the value goes through numpy's uint32
unsigned_right_shift_byte(val, n) ==
    IF n = 0 THEN ByteBits(val)
    ELSE unsigned_right_shift_long(
             ByteBits(val) \cup (IF val < 0 THEN BITS_PER_BYTE..31 ELSE {}), n)

padding_bytes(type) == HEADER_BYTE_COUNT

\* SchemaVersionOne._get_ordinal: TYPE_ORDINALS.index(type)
GetOrdinal(type) == (CHOOSE i \in 1..Len(TYPE_ORDINALS) : TYPE_ORDINALS[i] = type) - 1

pack_version_byte(schema_version_number, type_ordinal) ==
    to_signed_byte(IntOr(left_shift_int(IntAnd(NIBBLE_MASK, schema_version_number), NIBBLE_BITS),
                         IntAnd(NIBBLE_MASK, type_ordinal)))

pack_cutoff_byte(explicit_cutoff_value, sparse_enabled_flag) ==
    LET sparse_bit == IF sparse_enabled_flag THEN left_shift_int(1, EXPLICIT_CUTOFF_BITS) ELSE 0
    IN to_signed_byte(IntOr(sparse_bit, IntAnd(EXPLICIT_CUTOFF_MASK, explicit_cutoff_value)))

pack_parameters_byte(register_width_value, register_count_log2_value) ==
    LET width_bits == IntAnd(register_width_value - 1, REGISTER_WIDTH_MASK)
        count_bits == IntAnd(register_count_log2_value, LOG2_REGISTER_COUNT_MASK)
    IN to_signed_byte(to_signed_byte(
           IntOr(left_shift_int(width_bits, LOG2_REGISTER_COUNT_BITS), count_bits)))

SparseAlwaysEnabled(cutoff_byte) == TRUE

sparse_enabled(cutoff_byte) ==
    0 \in unsigned_right_shift_byte(cutoff_byte, EXPLICIT_CUTOFF_BITS)

explicit_cutoff(cutoff_byte) == ByteAnd(cutoff_byte, EXPLICIT_CUTOFF_MASK)

SchemaVersionAssumed(version_byte) == SCHEMA_VERSION

schema_version(version_byte) ==
    IntOfLong(LongOfInt(NIBBLE_MASK) \cap unsigned_right_shift_byte(version_byte, NIBBLE_BITS))

type_ordinal_of(version_byte) == ByteAnd(version_byte, NIBBLE_MASK)

register_width(parameters_byte) ==
    IntOfLong(unsigned_right_shift_byte(parameters_byte, LOG2_REGISTER_COUNT_BITS)
                \cap LongOfInt(REGISTER_WIDTH_MASK)) + 1

RegisterCountLog2OfNibble(parameters_byte) == ByteAnd(parameters_byte, NIBBLE_MASK)

register_count_log2(parameters_byte) == ByteAnd(parameters_byte, LOG2_REGISTER_COUNT_MASK)

\* SchemaVersionOne.write_metadata: the three header bytes
MetadataBytes(type, log2m, regwidth, log2_explicit_cutoff, explicit_off, explicit_auto, sparse_enabled_flag) ==
    LET explicit_cut_off_value ==
            IF explicit_off THEN EXPLICIT_OFF
            ELSE IF explicit_auto THEN EXPLICIT_AUTO
            ELSE log2_explicit_cutoff + 1
    IN << pack_version_byte(SCHEMA_VERSION, GetOrdinal(type)),
          pack_parameters_byte(regwidth, log2m),
          pack_cutoff_byte(explicit_cut_off_value, sparse_enabled_flag) >>

\* SchemaVersionOne.read_metadata
read_metadata(bytes) ==
    LET explicit_cut_off_value == explicit_cutoff(bytes[3])
        off == explicit_cut_off_value = EXPLICIT_OFF
        auto == explicit_cut_off_value = EXPLICIT_AUTO
    IN [ hll_type |-> TYPE_ORDINALS[type_ordinal_of(bytes[1]) + 1],
         register_count_log2 |-> register_count_log2(bytes[2]),
         register_width |-> register_width(bytes[2]),
         log2_explicit_cutoff |-> IF off \/ auto THEN -1 ELSE explicit_cut_off_value - 1,
         explicit_off |-> off,
         explicit_auto |-> auto,
         sparse_enabled |-> sparse_enabled(bytes[3]) ]

\* ------------------------------------------------------------------------
\* hll.py: to_bytes and from_bytes

RECURSIVE SortedLongsUnsigned(_)
SortedLongsUnsigned(S) ==
    IF S = {} THEN << >>
    ELSE LET below(x, y) == LET d == (x \ y) \cup (y \ x)
                            IN (CHOOSE i \in d : \A j \in d : j <= i) \in y
             lo == CHOOSE x \in S : \A y \in S \ {x} : below(x, y)
         IN << lo >> \o SortedLongsUnsigned(S \ {lo})

RECURSIVE SortedLongs(_)
\* sorted() of a set of longs: ascending as signed 64-bit integers
SortedLongs(S) ==
    IF S = {} THEN << >>
    ELSE LET lo == CHOOSE x \in S : \A y \in S \ {x} : LongLess(x, y)
         IN << lo >> \o SortedLongs(S \ {lo})

RECURSIVE SortedInts(_)
\* sorted() of a set of integers
SortedInts(S) ==
    IF S = {} THEN << >>
    ELSE LET lo == CHOOSE x \in S : \A y \in S : x <= y
         IN << lo >> \o SortedInts(S \ {lo})

\* the payload with the three header bytes still zero
PayloadBytes(h) ==
    IF h.type = EMPTY THEN [i \in 1..padding_bytes(h.type) |-> 0]
    ELSE IF h.type = EXPLICIT THEN
        get_bytes(WriteWords(
            NewSerializer(LONG_BIT_LENGTH, Cardinality(h.explicit_storage[1]),
                          padding_bytes(h.type)),
            SortedLongs(h.explicit_storage[1])))
    ELSE IF h.type = SPARSE THEN
        LET d == h.sparse_probabilistic_storage[1]
            indices == SortedInts(DOMAIN d)
            short_words == [k \in 1..Len(indices) |->
                               LongOfInt(left_shift_int(indices[k], h.regwidth))
                                  \cup LongOfInt(d[indices[k]])]
        IN get_bytes(WriteWords(
               NewSerializer(h.short_word_length, Cardinality(DOMAIN d),
                             padding_bytes(h.type)),
               short_words))
    ELSE get_bytes(get_register_contents(
             h.probabilistic_storage[1],
             NewSerializer(h.regwidth, h.m, padding_bytes(h.type))))

\* HLL.to_bytes
to_bytes(h) ==
    LET byte_array == PayloadBytes(h)
        log2_explicit_threshold ==
            IF ~(h.explicit_auto \/ h.explicit_off) THEN IntLog2(h.explicit_threshold, 1) ELSE 0
        header == MetadataBytes(h.type, h.log2m, h.regwidth, log2_explicit_threshold,
                                h.explicit_off, h.explicit_auto, ~h.sparse_off)
    IN [i \in 1..Len(byte_array) |-> IF i <= HEADER_BYTE_COUNT THEN header[i] ELSE byte_array[i]]

DrainedBitVector(bv) == [bv EXCEPT !.words = [k \in DOMAIN bv.words |-> {}]]

\* the vector after a LongIterator has run over it: next() reads _words and
\* assigns only fields of the iterator
IteratedBitVector(bv) == bv

\* self after to_bytes: the EXPLICIT branch sorts a list copy of the set, the
\* SPARSE branch reads keys() and get(), the FULL branch iterates the vector
SelfAfterToBytes(h) ==
    IF h.type = FULL
    THEN [h EXCEPT !.probabilistic_storage = << IteratedBitVector(@[1]) >>]
    ELSE h

\* the ways from_bytes raises instead of returning an estimator
FromBytesRaises(bytes) ==
    \/ schema_version(bytes[1]) # SCHEMA_VERSION
    \/ type_ordinal_of(bytes[1]) >= Len(TYPE_ORDINALS)
    \/ LET md == read_metadata(bytes)
           expthresh == IF md.explicit_auto THEN -1
                        ELSE IF md.explicit_off THEN 0 ELSE md.log2_explicit_cutoff + 1
       IN \/ ConstructorRaises(md.register_count_log2, md.register_width, expthresh)
          \/ md.hll_type = UNDEFINED
          \/ /\ md.hll_type = FULL
             /\ ReadWordRaises(NewDeserializer(md.register_width, HEADER_BYTE_COUNT, bytes),
                               left_shift_int(1, md.register_count_log2) - 1)

RECURSIVE SetRegistersFrom(_, _, _)
\* for i in range(m): set_register(i, words[i]), from register i
SetRegistersFrom(bv, words, i) ==
    IF i >= Len(words) THEN bv
    ELSE SetRegistersFrom(set_register(bv, i, IntOfLong(words[i + 1])), words, i + 1)

RECURSIVE PutShortWordsWithZeroes(_, _, _)
PutShortWordsWithZeroes(h, d, words) ==
    IF words = << >> THEN d
    ELSE LET short_word == Head(words)
             register_value == to_signed_byte(IntOfLong(short_word \cap LongOfInt(value_mask(h))))
             register_key == IntOfLong(unsigned_right_shift_long(short_word, h.regwidth))
         IN PutShortWordsWithZeroes(h, DictPut(d, register_key, register_value), Tail(words))

RECURSIVE PutShortWords(_, _, _)
\* the SPARSE loop of from_bytes over the decoded short words, in order
PutShortWords(h, d, words) ==
    IF words = << >> THEN d
    ELSE LET short_word == Head(words)
             register_value == to_signed_byte(IntOfLong(short_word \cap LongOfInt(value_mask(h))))
             register_key == IntOfLong(unsigned_right_shift_long(short_word, h.regwidth))
         IN PutShortWords(h,
                          IF register_value # 0 THEN DictPut(d, register_key, register_value)
                          ELSE d,
                          Tail(words))

\* HLL.from_bytes for bytes it does not raise on
from_bytes(bytes) ==
    LET md == read_metadata(bytes)
        expthresh == IF md.explicit_auto THEN -1
                     ELSE IF md.explicit_off THEN 0 ELSE md.log2_explicit_cutoff + 1
        hll == NewHLL(md.register_count_log2, md.register_width, expthresh,
                      md.sparse_enabled, md.hll_type)
        word_length == IF md.hll_type = EXPLICIT THEN LONG_BIT_LENGTH
                       ELSE IF md.hll_type = SPARSE THEN hll.short_word_length
                       ELSE hll.regwidth
        deserializer == NewDeserializer(word_length, padding_bytes(md.hll_type), bytes)
    IN IF md.hll_type = EMPTY THEN hll
       ELSE IF md.hll_type = EXPLICIT THEN
           LET words == ReadWords(deserializer, 0, total_word_count(deserializer))
           IN [hll EXCEPT !.explicit_storage = << {words[k] : k \in 1..Len(words)} >>]
       ELSE IF md.hll_type = SPARSE THEN
           [hll EXCEPT !.sparse_probabilistic_storage =
               << PutShortWords(hll, << >>,
                                ReadWords(deserializer, 0, total_word_count(deserializer))) >>]
       ELSE [hll EXCEPT !.probabilistic_storage =
               << SetRegistersFrom(@[1], ReadWords(deserializer, 0, hll.m), 0) >>]

\* ------------------------------------------------------------------------
\* The state machine: two estimators a and b built with the same constructor
\* arguments.  a receives add_raw, union(b), clear and a to_bytes/from_bytes
\* round trip; b receives add_raw.

\* how many of the raw values below the callers draw from
NumRawValues == 4

\* 64-bit raw values, as hashed by the caller
RawValue(k) ==
    CASE k = 1 -> {1, 4}              \* 0x12: register 2, sub-stream 0x1
      [] k = 2 -> {0, 1, 5}           \* 0x23: register 3, sub-stream 0x2
      [] k = 3 -> LongBits            \* -1: register 15, every bit set
      [] k = 4 -> {0}                 \* 0x1: register 1, sub-stream 0
      [] k = 5 -> {1, 6}              \* 0x42: register 2, sub-stream 0x4
      [] k = 6 -> {2, 63}             \* -2^63 + 4: register 4, only the sign bit above
      [] OTHER -> {0, 2, 4 + k}       \* register 5, one sub-stream bit

RawValues == {RawValue(k) : k \in 1..NumRawValues}

\* constructor arguments the estimators are built with, as
\* << regwidth, expthresh, sparseon >>; log2m is MINIMUM_LOG2M_PARAM
ParamTuples ==
    { << 1, 2, TRUE >>,      \* explicit_threshold 2, sparse_threshold 2
      << 1, 1, TRUE >>,      \* explicit_threshold 1, sparse_threshold 2
      << 2, -1, TRUE >>,     \* automatic explicit_threshold (0), sparse_threshold 4
      << 2, 0, FALSE >>,     \* neither EXPLICIT nor SPARSE
      << 2, 1, FALSE >> }    \* explicit_threshold 1, no SPARSE

RegWidths == {1, 2}

ExpThreshs == {-1, 0, 1, 2}

HLLTypes == {EMPTY, EXPLICIT, SPARSE, FULL}

\* how far the add_raw calls of a and b may drift apart, per raw value, before
\* the comparison of their inputs is given up
MaxSkew == 1

\* how many add_raw calls on a are counted before the count stops growing
MaxCalls == 3

VARIABLES a, b, last, fresh, addOnly, balance, added, cloned, codec, vector

vars == << a, b, last, fresh, addOnly, balance, added, cloned, codec, vector >>

\* last:    the operation that returned last, the estimator it was called on
\*          and the type of that estimator before the call
\* fresh:   while a and then b have only received add_raw since both were
\*          constructed EMPTY, an estimator with the same arguments that
\*          received the same calls in the same order; kept across the first
\*          union, None otherwise
\* addOnly: a has received nothing but add_raw, and round trips through
\*          to_bytes and from_bytes, since its construction
\* balance: per raw value, the number of add_raw calls a received minus the
\*          number b received; None when not followed
\* added:   while a is EMPTY or EXPLICIT and has received nothing but add_raw,
\*          clear and round trips: the raw values passed to a.add_raw since
\*          the construction or the last clear, and the number of those calls
\*          (counted up to MaxCalls); None when not followed
\* cloned:  how the storage object a holds relates to the one b holds: "own"
\*          (not taken from b), "copy" (union made it from b's, a separate
\*          object) or "shared" (the very object b holds, so that what one
\*          estimator writes into it the other reads); "unfollowed" when not
\*          followed

ReferenceTo(storage) == "shared"

\* copy.deepcopy(storage): a new object with the value of storage
DeepcopyOf(storage) == "copy"

\* the branches of union that give self a clone of the storage of other
UnionClones(self, other) ==
    \/ /\ self.type = EMPTY
       /\ \/ other.type = EXPLICIT
             /\ Cardinality(other.explicit_storage[1]) <= self.explicit_threshold
          \/ other.type = SPARSE /\ ~self.sparse_off
          \/ other.type = FULL
    \/ /\ self.type = EXPLICIT
       /\ \/ other.type = SPARSE /\ ~self.sparse_off
          \/ other.type = FULL
    \/ self.type = SPARSE /\ other.type = FULL

\* cloned after self.union(other) has left self as after
ClonedByUnion(was, self, other, after) ==
    IF was = "unfollowed" THEN was
    ELSE IF UnionClones(self, other)
      THEN (IF after.type = other.type
            THEN DeepcopyOf(IF other.type = EXPLICIT THEN other.explicit_storage
                            ELSE IF other.type = SPARSE THEN other.sparse_probabilistic_storage
                            ELSE other.probabilistic_storage)
            ELSE "own")
    ELSE IF after.type = self.type THEN was
    ELSE "own"

\* x reading the storage object that y has just written, when they share it
Mirror(x, y) ==
    IF cloned # "shared" \/ x.type # y.type THEN x
    ELSE [x EXCEPT !.explicit_storage = y.explicit_storage,
                   !.sparse_probabilistic_storage = y.sparse_probabilistic_storage,
                   !.probabilistic_storage = y.probabilistic_storage]

\* cloned after a call that may have replaced the storage object of h
Kept(was, h, after) ==
    IF was = "unfollowed" \/ after.type = h.type THEN was ELSE "own"

Track(bal, v, d) ==
    IF bal = None THEN None
    ELSE IF bal[v] + d > MaxSkew \/ bal[v] + d < 0 - MaxSkew THEN None
    ELSE [bal EXCEPT ![v] = @ + d]

Called(record, v) ==
    IF record = None \/ add_raw(a, v).type \notin {EMPTY, EXPLICIT} THEN None
    ELSE << [values |-> record[1].values \cup {v},
             calls |-> Min(record[1].calls + 1, MaxCalls)] >>

AddRawA(v) ==
    /\ a' = add_raw(a, v)
    /\ last' = [op |-> "add_raw", target |-> "a", from |-> a.type]
    /\ fresh' = IF fresh # None /\ b.type = EMPTY /\ last.op # "union"
                THEN << add_raw(fresh[1], v) >> ELSE None
    /\ balance' = Track(balance, v, 1)
    /\ added' = Called(added, v)
    /\ b' = Mirror(b, add_raw(a, v))
    /\ UNCHANGED << codec, vector >>
    /\ cloned' = Kept(cloned, a, add_raw(a, v))
    /\ UNCHANGED addOnly

AddRawB(v) ==
    /\ b' = add_raw(b, v)
    /\ last' = [op |-> "add_raw", target |-> "b", from |-> b.type]
    /\ fresh' = IF fresh # None /\ last.op # "union"
                THEN << add_raw(fresh[1], v) >> ELSE None
    /\ balance' = Track(balance, v, -1)
    /\ a' = Mirror(a, add_raw(b, v))
    /\ UNCHANGED << codec, vector >>
    /\ cloned' = Kept(cloned, b, add_raw(b, v))
    /\ UNCHANGED << addOnly, added >>

\* union() checks nothing about the other estimator (hll.py line 499 is a
\* TODO), so no pair of estimators makes it raise
UnionRaises(self, other) == FALSE

UnionAB(order) ==
    /\ ~UnionRaises(a, b)
    /\ a' = union(a, b, order)
    /\ last' = [op |-> "union", target |-> "a", from |-> a.type]
    /\ fresh' = IF last.op # "union" THEN fresh ELSE None
    /\ addOnly' = FALSE
    /\ balance' = None
    /\ added' = None
    /\ UNCHANGED << codec, vector >>
    /\ cloned' = ClonedByUnion(cloned, a, b, union(a, b, order))
    /\ b' = IF ClonedByUnion(cloned, a, b, union(a, b, order)) = "shared"
            THEN [b EXCEPT !.explicit_storage = union(a, b, order).explicit_storage,
                           !.sparse_probabilistic_storage =
                               union(a, b, order).sparse_probabilistic_storage,
                           !.probabilistic_storage = union(a, b, order).probabilistic_storage]
            ELSE b

ClearA ==
    /\ a' = clear(a)
    /\ last' = [op |-> "clear", target |-> "a", from |-> a.type]
    /\ fresh' = None
    /\ addOnly' = FALSE
    /\ balance' = None
    /\ added' = IF added = None THEN None ELSE << [values |-> {}, calls |-> 0] >>
    /\ b' = Mirror(b, clear(a))
    /\ UNCHANGED << cloned, codec, vector >>

ClearB ==
    /\ b' = clear(b)
    /\ last' = [op |-> "clear", target |-> "b", from |-> b.type]
    /\ fresh' = None
    /\ balance' = None
    /\ a' = Mirror(a, clear(b))
    /\ UNCHANGED << addOnly, added, cloned, codec, vector >>

ToBytesA ==
    /\ a' = SelfAfterToBytes(a)
    /\ last' = [op |-> "to_bytes", target |-> "a", from |-> a.type]
    /\ UNCHANGED << b, fresh, addOnly, balance, added, cloned, codec, vector >>

RoundTripA ==
    /\ ~FromBytesRaises(to_bytes(a))
    /\ a' = from_bytes(to_bytes(a))
    /\ last' = [op |-> "round_trip", target |-> "a", from |-> a.type]
    /\ fresh' = None
    /\ balance' = None
    /\ UNCHANGED << codec, vector >>
    /\ cloned' = IF cloned = "unfollowed" THEN cloned ELSE "own"
    /\ UNCHANGED << b, addOnly, added >>

\* Two estimators constructed EMPTY with the same arguments.
Init ==
    \E p \in ParamTuples :
        /\ a = NewHLL(MINIMUM_LOG2M_PARAM, p[1], p[2], p[3], EMPTY)
        /\ b = NewHLL(MINIMUM_LOG2M_PARAM, p[1], p[2], p[3], EMPTY)
        /\ last = [op |-> "new", target |-> "a", from |-> EMPTY]
        /\ fresh = << b >>
        /\ addOnly = TRUE
        /\ balance = None
        /\ added = None
        /\ cloned = "unfollowed"
        /\ codec = None
        /\ vector = None

Next ==
    \/ \E v \in RawValues : AddRawA(v)
    \/ \E v \in RawValues : AddRawB(v)
    \/ \E order \in UnionOrders(a, b) : UnionAB(order)
    \/ ClearA
    \/ RoundTripA

Spec == Init /\ [][Next]_vars

\* One estimator, constructed with any of the arguments and any initial type.
InitSingle ==
    \E regwidth \in RegWidths, expthresh \in ExpThreshs, sparseon \in BOOLEAN,
       type \in HLLTypes :
        /\ a = NewHLL(MINIMUM_LOG2M_PARAM, regwidth, expthresh, sparseon, type)
        /\ b = NewHLL(MINIMUM_LOG2M_PARAM, regwidth, expthresh, sparseon, EMPTY)
        /\ last = [op |-> "new", target |-> "a", from |-> type]
        /\ fresh = None
        /\ addOnly = TRUE
        /\ balance = None
        /\ added = IF type \in {EMPTY, EXPLICIT}
                   THEN << [values |-> {}, calls |-> 0] >> ELSE None
        /\ cloned = "unfollowed"
        /\ codec = None
        /\ vector = None

NextSingle ==
    \/ \E v \in RawValues : AddRawA(v)
    \/ ClearA
    \/ ToBytesA
    \/ RoundTripA

SpecSingle == InitSingle /\ [][NextSingle]_vars

\* Two estimators that only receive add_raw, the inputs of both followed.
InitOrder ==
    \E p \in ParamTuples :
        /\ a = NewHLL(MINIMUM_LOG2M_PARAM, p[1], p[2], p[3], EMPTY)
        /\ b = NewHLL(MINIMUM_LOG2M_PARAM, p[1], p[2], p[3], EMPTY)
        /\ last = [op |-> "new", target |-> "a", from |-> EMPTY]
        /\ fresh = None
        /\ addOnly = TRUE
        /\ balance = [v \in RawValues |-> 0]
        /\ added = None
        /\ cloned = "unfollowed"
        /\ codec = None
        /\ vector = None

NextOrder ==
    \/ \E v \in RawValues : AddRawA(v)
    \/ \E v \in RawValues : AddRawB(v)

SpecOrder == InitOrder /\ [][NextOrder]_vars

\* Two estimators constructed with different regwidth.
InitMismatch ==
    \E p \in ParamTuples, regwidth \in RegWidths :
        /\ regwidth # p[1]
        /\ a = NewHLL(MINIMUM_LOG2M_PARAM, p[1], p[2], p[3], EMPTY)
        /\ b = NewHLL(MINIMUM_LOG2M_PARAM, regwidth, p[2], p[3], EMPTY)
        /\ last = [op |-> "new", target |-> "a", from |-> EMPTY]
        /\ fresh = None
        /\ addOnly = TRUE
        /\ balance = None
        /\ added = None
        /\ cloned = "unfollowed"
        /\ codec = None
        /\ vector = None

NextMismatch ==
    \/ \E v \in RawValues : AddRawA(v)
    \/ \E v \in RawValues : AddRawB(v)
    \/ \E order \in UnionOrders(a, b) : UnionAB(order)

SpecMismatch == InitMismatch /\ [][NextMismatch]_vars

\* Two estimators constructed EMPTY with the same arguments, fed raw values of
\* which two fall into the same register with different ranks (0x12 and 0x42:
\* register 2, ranks 1 and 3).
RegisterValues == {RawValue(k) : k \in (1..(NumRawValues + 1)) \ {NumRawValues}}

InitRegisters ==
    \E regwidth \in RegWidths, expthresh \in {0, 1}, sparseon \in BOOLEAN :
        /\ a = NewHLL(MINIMUM_LOG2M_PARAM, regwidth, expthresh, sparseon, EMPTY)
        /\ b = NewHLL(MINIMUM_LOG2M_PARAM, regwidth, expthresh, sparseon, EMPTY)
        /\ last = [op |-> "new", target |-> "a", from |-> EMPTY]
        /\ fresh = None
        /\ addOnly = TRUE
        /\ balance = None
        /\ added = None
        /\ cloned = "unfollowed"
        /\ codec = None
        /\ vector = None

NextRegisters ==
    \/ \E v \in RegisterValues : AddRawA(v)
    \/ \E v \in RegisterValues : AddRawB(v)
    \/ \E order \in UnionOrders(a, b) : UnionAB(order)

SpecRegisters == InitRegisters /\ [][NextRegisters]_vars

\* Two estimators with the same arguments, a constructed EMPTY and b
\* constructed with any initial type.
InitTyped ==
    \E p \in ParamTuples, type \in HLLTypes :
        /\ a = NewHLL(MINIMUM_LOG2M_PARAM, p[1], p[2], p[3], EMPTY)
        /\ b = NewHLL(MINIMUM_LOG2M_PARAM, p[1], p[2], p[3], type)
        /\ last = [op |-> "new", target |-> "b", from |-> type]
        /\ fresh = None
        /\ addOnly = TRUE
        /\ balance = None
        /\ added = None
        /\ cloned = "own"
        /\ codec = None
        /\ vector = None

NextTyped ==
    \/ \E v \in RawValues : AddRawA(v)
    \/ \E v \in RawValues : AddRawB(v)
    \/ \E order \in UnionOrders(a, b) : UnionAB(order)
    \/ ClearA
    \/ ClearB

SpecTyped == InitTyped /\ [][NextTyped]_vars

\* ------------------------------------------------------------------------
\* Construction and frames: one constructor call with arguments inside and
\* outside the documented ranges, then to_bytes and from_bytes on what it made.

\* The constructor calls that are followed: log2m, regwidth and expthresh from
\* below, inside and above their documented ranges.  The register bits
\* regwidth * m of an estimator that gets built stay below 2^31 (Python's
\* integers have no such limit, the model checker's have), and a FULL vector
\* is allocated only for the smallest m.
ConstructorArgs ==
    { args \in {MINIMUM_LOG2M_PARAM - 1, MINIMUM_LOG2M_PARAM, 11, 27,
                MAXIMUM_LOG2M_PARAM, MAXIMUM_LOG2M_PARAM + 1}
              \X {MINIMUM_REGWIDTH_PARAM - 1, MINIMUM_REGWIDTH_PARAM, 5,
                  MAXIMUM_REGWIDTH_PARAM, MAXIMUM_REGWIDTH_PARAM + 1}
              \X ((MINIMUM_EXPTHRESH_PARAM - 1) .. (MAXIMUM_EXPTHRESH_PARAM + 1))
              \X BOOLEAN
              \X HLLTypes :
        /\ FirstRaise(args[1], args[2], args[3]) = "none"
              => args[2] * (2^(args[1] - 4)) < 2^27
        /\ args[5] = FULL => args[1] <= MINIMUM_LOG2M_PARAM }

\* HLL(log2m, regwidth, expthresh, sparseon, type) with the arguments drawn by
\* InitFrames: a holds the new estimator, or what it held when __init__ raised
Construct ==
    /\ last.op = "arguments"
    /\ \E raised \in {FirstRaise(last.args[1], last.args[2], last.args[3])} :
          /\ a' = IF raised = "none"
                  THEN NewHLL(last.args[1], last.args[2], last.args[3], last.args[4],
                              last.args[5])
                  ELSE a
          /\ last' = [op |-> "new", target |-> "a", from |-> last.args[5],
                      args |-> last.args, raised |-> raised]
    /\ fresh' = None
    /\ balance' = None
    /\ UNCHANGED << b, addOnly, added, cloned, codec, vector >>

InitFrames ==
    \E args \in ConstructorArgs :
        /\ a = NewHLL(MINIMUM_LOG2M_PARAM, MINIMUM_REGWIDTH_PARAM, -1, TRUE, EMPTY)
        /\ b = NewHLL(MINIMUM_LOG2M_PARAM, MINIMUM_REGWIDTH_PARAM, -1, TRUE, EMPTY)
        /\ last = [op |-> "arguments", target |-> "a", from |-> EMPTY, args |-> args]
        /\ fresh = None
        /\ addOnly = TRUE
        /\ balance = None
        /\ added = None
        /\ cloned = "unfollowed"
        /\ codec = None
        /\ vector = None

NextFrames ==
    \/ Construct
    \/ RoundTripA

SpecFrames == InitFrames /\ [][NextFrames]_vars

\* ------------------------------------------------------------------------
\* Frames from elsewhere: from_bytes on the image of an estimator with the
\* version nibble, the type nibble or the length replaced.

Frames(h) ==
    LET image == to_bytes(h)
    IN {[image EXCEPT ![1] = pack_version_byte(version, GetOrdinal(h.type))] :
            version \in 0..NIBBLE_MASK}
       \cup {[image EXCEPT ![1] = pack_version_byte(SCHEMA_VERSION, ordinal)] :
            ordinal \in 0..NIBBLE_MASK}
       \cup {SubSeq(image, 1, length) : length \in HEADER_BYTE_COUNT..Len(image)}

\* HLL.from_bytes(bytes): a holds the estimator read, or what it held when
\* from_bytes raised
FromBytesA(bytes) ==
    /\ \E failed \in {FromBytesRaises(bytes)} :
          /\ a' = IF failed THEN a ELSE from_bytes(bytes)
          /\ last' = [op |-> "from_bytes", target |-> "a", from |-> a.type,
                      bytes |-> bytes, failed |-> failed]
    /\ fresh' = None
    /\ balance' = None
    /\ UNCHANGED << b, addOnly, added, cloned, codec, vector >>

NextForeign == \E bytes \in Frames(a) : FromBytesA(bytes)

SpecForeign == InitSingle /\ [][NextForeign]_vars

\* ------------------------------------------------------------------------
\* The word codec on its own: one BigEndianAscendingWordSerializer, the calls
\* made on it, and a BigEndianAscendingWordDeserializer over the bytes it
\* returned.
\*
\* codec: serializer   the serializer object
\*        byte_padding its byte_padding argument
\*        written      the words of the write_word calls that returned
\*        call, raised the last call made and whether it raised
\*        returned     get_bytes has returned the backing array
\*        read         the words read_word has returned so far, from word 0

\* the largest word_count a serializer is constructed with
MaxWords == 2

\* words that fit in word_length bits: none set, the lowest, the highest (the
\* sign bit of a long when word_length is 64), every other one, all of them
WordArgs(word_length) ==
    { {}, {0}, {word_length - 1}, {i \in 0..(word_length - 1) : i % 2 = 0},
      0..(word_length - 1) }

InitCodec ==
    \E word_length \in {1, 5, 8, 13, LONG_BIT_LENGTH - 1, LONG_BIT_LENGTH},
       word_count \in 0..MaxWords, byte_padding \in {0, HEADER_BYTE_COUNT} :
        /\ codec = [ serializer |-> NewSerializer(word_length, word_count, byte_padding),
                     byte_padding |-> byte_padding,
                     written |-> << >>,
                     call |-> "new",
                     raised |-> FALSE,
                     returned |-> FALSE,
                     read |-> << >> ]
        /\ vector = None
        /\ a = NewHLL(MINIMUM_LOG2M_PARAM, MINIMUM_REGWIDTH_PARAM, -1, TRUE, EMPTY)
        /\ b = NewHLL(MINIMUM_LOG2M_PARAM, MINIMUM_REGWIDTH_PARAM, -1, TRUE, EMPTY)
        /\ last = [op |-> "new", target |-> "a", from |-> EMPTY]
        /\ fresh = None
        /\ addOnly = TRUE
        /\ balance = None
        /\ added = None
        /\ cloned = "unfollowed"

\* serializer.write_word(word)
WriteWord(word) ==
    /\ codec' = IF WriteWordRaises(codec.serializer)
                THEN [codec EXCEPT !.call = "write_word", !.raised = TRUE]
                ELSE [codec EXCEPT !.call = "write_word", !.raised = FALSE,
                                   !.serializer = write_word(@, word),
                                   !.written = Append(@, word)]
    /\ UNCHANGED << a, b, last, fresh, addOnly, balance, added, cloned, vector >>

\* serializer.get_bytes()
GetBytes ==
    /\ codec' = IF GetBytesRaises(codec.serializer)
                THEN [codec EXCEPT !.call = "get_bytes", !.raised = TRUE]
                ELSE [codec EXCEPT !.call = "get_bytes", !.raised = FALSE,
                                   !.returned = TRUE]
    /\ UNCHANGED << a, b, last, fresh, addOnly, balance, added, cloned, vector >>

\* deserializer.read_word(), the deserializer constructed with the word length
\* and padding of the serializer over the bytes get_bytes returned; called no
\* more than total_word_count times, as read_word's documentation asks
ReadWord ==
    /\ codec.returned
    /\ \E d \in {NewDeserializer(codec.serializer.word_length, codec.byte_padding,
                                  get_bytes(codec.serializer))} :
          /\ Len(codec.read) < total_word_count(d)
          /\ codec' = IF ReadWordRaises(d, Len(codec.read))
                      THEN [codec EXCEPT !.call = "read_word", !.raised = TRUE]
                      ELSE [codec EXCEPT !.call = "read_word", !.raised = FALSE,
                                         !.read = Append(@, ReadWordAt(d, Len(codec.read)))]
    /\ UNCHANGED << a, b, last, fresh, addOnly, balance, added, cloned, vector >>

NextCodec ==
    \/ \E word \in WordArgs(codec.serializer.word_length) : WriteWord(word)
    \/ GetBytes
    \/ ReadWord

SpecCodec == InitCodec /\ [][NextCodec]_vars

\* ------------------------------------------------------------------------
\* The register vector on its own: one BitVector of each register width, long
\* enough for its registers to reach into a second 64-bit word, and the calls
\* made on it.
\*
\* vector: bv            the BitVector object
\*         call          the last call made
\*         index, value  its arguments (0 where it has none)
\*         result        what it returned (FALSE where it returns nothing)

InitVector ==
    \E width \in MINIMUM_REGWIDTH_PARAM..MAXIMUM_REGWIDTH_PARAM :
        /\ vector = [ bv |-> NewBitVector(width, (BITS_PER_WORD \div width) + 2),
                      call |-> "new", index |-> 0, value |-> 0, result |-> FALSE ]
        /\ a = NewHLL(MINIMUM_LOG2M_PARAM, MINIMUM_REGWIDTH_PARAM, -1, TRUE, EMPTY)
        /\ b = NewHLL(MINIMUM_LOG2M_PARAM, MINIMUM_REGWIDTH_PARAM, -1, TRUE, EMPTY)
        /\ last = [op |-> "new", target |-> "a", from |-> EMPTY]
        /\ fresh = None
        /\ addOnly = TRUE
        /\ balance = None
        /\ added = None
        /\ cloned = "unfollowed"
        /\ codec = None

\* vector.set_register(register_index, value)
SetRegister(register_index, value) ==
    /\ vector' = [ bv |-> set_register(vector.bv, register_index, value),
                   call |-> "set_register", index |-> register_index,
                   value |-> value, result |-> FALSE ]
    /\ UNCHANGED << a, b, last, fresh, addOnly, balance, added, cloned, codec >>

\* vector.set_max_register(register_index, value)
SetMaxRegister(register_index, value) ==
    /\ vector' = [ bv |-> set_max_register(vector.bv, register_index, value),
                   call |-> "set_max_register", index |-> register_index,
                   value |-> value,
                   result |-> SetMaxRegisterResult(vector.bv, register_index, value) ]
    /\ UNCHANGED << a, b, last, fresh, addOnly, balance, added, cloned, codec >>

\* vector.fill(value)
Fill(value) ==
    /\ vector' = [ bv |-> fill(vector.bv, value),
                   call |-> "fill", index |-> 0, value |-> value, result |-> FALSE ]
    /\ UNCHANGED << a, b, last, fresh, addOnly, balance, added, cloned, codec >>

\* list(vector.register_iterator())
Iterate ==
    /\ vector' = [ bv |-> IteratedBitVector(vector.bv),
                   call |-> "register_iterator", index |-> 0, value |-> 0,
                   result |-> register_iterator(vector.bv) ]
    /\ UNCHANGED << a, b, last, fresh, addOnly, balance, added, cloned, codec >>

\* The arguments drawn: the last register of the first word, the one after it
\* (it lies across the two words when the width does not divide 64) and the
\* last register; the values 0, 1 and the largest a register holds, and for
\* set_register and fill one that is a bit too wide for a register.
NextVector ==
    \/ \E register_index \in (vector.bv.count - 3)..(vector.bv.count - 1),
          value \in {0, 1, 2^vector.bv.register_width - 1} :
            \/ SetRegister(register_index, value)
            \/ SetMaxRegister(register_index, value)
    \/ \E register_index \in (vector.bv.count - 3)..(vector.bv.count - 1) :
            SetRegister(register_index, 2^(vector.bv.register_width + 1) - 1)
    \/ \E value \in {0, 2^vector.bv.register_width - 1,
                      2^(vector.bv.register_width + 1) - 1} :
            Fill(value)
    \/ Iterate

SpecVector == InitVector /\ [][NextVector]_vars

\* ------------------------------------------------------------------------
\* An estimator a with the sparse representation disabled, constructed with
\* any initial type but SPARSE, and an estimator b with it enabled: union()
\* checks nothing about its operands, so a receives the SPARSE b.
InitSparseOff ==
    \E expthresh \in {0, 1}, type \in HLLTypes \ {SPARSE}, other \in {EMPTY, SPARSE} :
        /\ a = NewHLL(MINIMUM_LOG2M_PARAM, 2, expthresh, FALSE, type)
        /\ b = NewHLL(MINIMUM_LOG2M_PARAM, 2, expthresh, TRUE, other)
        /\ last = [op |-> "new", target |-> "a", from |-> type]
        /\ fresh = None
        /\ addOnly = TRUE
        /\ balance = None
        /\ added = None
        /\ cloned = "unfollowed"
        /\ codec = None
        /\ vector = None

NextSparseOff ==
    \/ \E v \in RawValues : AddRawA(v)
    \/ \E v \in RawValues : AddRawB(v)
    \/ \E order \in UnionOrders(a, b) : UnionAB(order)
    \/ ClearA

SpecSparseOff == InitSparseOff /\ [][NextSparseOff]_vars

\* ------------------------------------------------------------------------
\* Two functions on their own, applied to arguments drawn at the start.
\*
\* pack_parameters_byte on every register width 1..8 and every log2m its five
\* bits hold, and the two readers on the byte it returned.
\*
\* cardinality() on a FULL estimator a and a SPARSE estimator b that hold the
\* same registers, as from_bytes builds them from a frame (it fills the vector
\* or the map with whatever registers the frame carries, hll.py 826-848):
\* log2m 4, regwidth 1..3, every register `base` but the first `count`, which
\* are `raised`.

InitFunctions ==
    \/ \E register_width_value \in MINIMUM_REGWIDTH_PARAM..MAXIMUM_REGWIDTH_PARAM,
          register_count_log2_value \in 0..LOG2_REGISTER_COUNT_MASK :
           /\ last = [op |-> "arguments", target |-> "a", from |-> EMPTY,
                      args |-> << register_width_value, register_count_log2_value >>]
           /\ a = NewHLL(MINIMUM_LOG2M_PARAM, MINIMUM_REGWIDTH_PARAM, -1, TRUE, EMPTY)
           /\ b = NewHLL(MINIMUM_LOG2M_PARAM, MINIMUM_REGWIDTH_PARAM, -1, TRUE, EMPTY)
           /\ fresh = None
           /\ addOnly = TRUE
           /\ balance = None
           /\ added = None
           /\ cloned = "unfollowed"
           /\ codec = None
           /\ vector = None
    \/ \E regwidth \in {1, 2, 3}, count \in {0, 1, 8, 15} :
         \E base \in 0..(2^regwidth - 1), raised \in 0..(2^regwidth - 1) :
           LET regs == [j \in 0..(2^MINIMUM_LOG2M_PARAM - 1) |->
                           IF j < count THEN raised ELSE base]
               d == [j \in {k \in DOMAIN regs : regs[k] # 0} |-> regs[j]]
           IN /\ last = [op |-> "estimators", target |-> "a", from |-> FULL]
              /\ a = FullFromSparse(NewHLL(MINIMUM_LOG2M_PARAM, regwidth, 0, TRUE, FULL), d)
              /\ b = [NewHLL(MINIMUM_LOG2M_PARAM, regwidth, 0, TRUE, SPARSE)
                         EXCEPT !.sparse_probabilistic_storage = << d >>]
              /\ fresh = None
              /\ addOnly = TRUE
              /\ balance = None
              /\ added = None
              /\ cloned = "unfollowed"
              /\ codec = None
              /\ vector = None

\* byte = SerializationUtil.pack_parameters_byte(register_width, register_count_log2),
\* then SerializationUtil.register_width(byte) and register_count_log2(byte)
PackParameters ==
    /\ last.op = "arguments"
    /\ \E byte \in {pack_parameters_byte(last.args[1], last.args[2])} :
          last' = [op |-> "pack_parameters_byte", target |-> "a", from |-> EMPTY,
                   args |-> last.args, byte |-> byte,
                   register_width |-> register_width(byte),
                   register_count_log2 |-> register_count_log2(byte)]
    /\ UNCHANGED << a, b, fresh, addOnly, balance, added, cloned, codec, vector >>

\* a.cardinality() and b.cardinality()
CardinalityAB ==
    /\ last.op = "estimators"
    /\ last' = [op |-> "cardinality", target |-> "a", from |-> a.type,
                result |-> cardinality(a), other |-> cardinality(b)]
    /\ UNCHANGED << a, b, fresh, addOnly, balance, added, cloned, codec, vector >>

SpecFunctions == InitFunctions /\ [][PackParameters \/ CardinalityAB]_vars

\* ------------------------------------------------------------------------
\* Properties

\* what an estimator holds: the explicit set, or the registers 0..m-1
ExplicitSet(h) == IF h.type = EXPLICIT THEN h.explicit_storage[1] ELSE {}

Registers(h) ==
    IF h.type = SPARSE THEN SparseRegisters(h)
    ELSE register_iterator(h.probabilistic_storage[1])

NonZeroSparseRegisters(h) ==
    Cardinality({k \in DOMAIN h.sparse_probabilistic_storage[1] :
                    h.sparse_probabilistic_storage[1][k] # 0})

SameContents(x, y) ==
    \/ /\ x.type \in {EMPTY, EXPLICIT}
       /\ y.type \in {EMPTY, EXPLICIT}
       /\ ExplicitSet(x) = ExplicitSet(y)
    \/ /\ x.type \in {SPARSE, FULL}
       /\ y.type \in {SPARSE, FULL}
       /\ Registers(x) = Registers(y)

\* a and b were constructed EMPTY and have received nothing but add_raw
BuiltByAddRaw == fresh # None /\ last.op # "union"

\* C1: two estimators with the same arguments that received the same multiset
\* of raw values through add_raw, in whatever order and with duplicates,
\* serialize to the same bytes.
C1_OrderIndependent ==
    (balance # None /\ \A v \in RawValues : balance[v] = 0)
        => to_bytes(a) = to_bytes(b)

\* C2: calling add_raw(v) again right after add_raw(v) changes nothing, also
\* when the first call promoted the representation.
C2_AddRawIdempotent ==
    [][\A v \in RawValues : AddRawA(v) => add_raw(a', v) = a']_vars

\* C3: add_raw, union and clear never move the type of an estimator backward
\* in EMPTY < EXPLICIT < SPARSE < FULL; clear leaves the type as it is; FULL
\* stays FULL.
C3_TypeNeverMovesBackward ==
    [][last'.op \in {"add_raw", "union", "clear"} =>
         /\ a'.type >= a.type
         /\ b'.type >= b.type
         /\ (last'.op = "clear" => a'.type = a.type)
         /\ (a.type = FULL => a'.type = FULL)
         /\ (b.type = FULL => b'.type = FULL)]_vars

C3_Witness ==
    /\ last.op = "union"
    /\ last.from = EXPLICIT
    /\ a.type = FULL

\* C4: for an estimator reached by add_raw from any initial type,
\* from_bytes(to_bytes(h)) succeeds and has the cardinality, the type and the
\* bytes of h.
C4_RoundTrip ==
    addOnly =>
        LET bytes == to_bytes(a)
        IN /\ ~FromBytesRaises(bytes)
           /\ cardinality(from_bytes(bytes)) = cardinality(a)
           /\ from_bytes(bytes).type = a.type
           /\ to_bytes(from_bytes(bytes)) = bytes

C4_Witness ==
    /\ addOnly
    /\ last.op = "round_trip"
    /\ a.type = SPARSE
    /\ cardinality(a) > 0

\* C5: an estimator that is SPARSE when add_raw, union or clear returns has at
\* most sparse_threshold nonzero registers.
C5_SparseWithinThreshold ==
    \A h \in {a, b} :
        h.type = SPARSE => NonZeroSparseRegisters(h) <= h.sparse_threshold

\* C6: an estimator that is EXPLICIT when add_raw, union or clear returns
\* holds at most explicit_threshold values.
C6_ExplicitWithinThreshold ==
    \A h \in {a, b} :
        h.type = EXPLICIT => Cardinality(h.explicit_storage[1]) <= h.explicit_threshold

C6_Witness ==
    /\ last.op = "union"
    /\ last.from = EXPLICIT
    /\ a.type = EXPLICIT
    /\ a.explicit_threshold = 2
    /\ Cardinality(a.explicit_storage[1]) = 2

\* C7: a.union(b) a second time leaves the bytes of a as the first left them.
C7_UnionIdempotent ==
    last.op = "union" =>
        \A order \in UnionOrders(a, b) : to_bytes(union(a, b, order)) = to_bytes(a)

\* C8: for a and b built from EMPTY by add_raw, a.union(b) and b.union(a)
\* hold the same explicit set or the same registers, and report the same
\* cardinality.
C8_UnionCommutes ==
    BuiltByAddRaw =>
        \A o1 \in UnionOrders(a, b), o2 \in UnionOrders(b, a) :
            /\ SameContents(union(a, b, o1), union(b, a, o2))
            /\ cardinality(union(a, b, o1)) = cardinality(union(b, a, o2))

C8_Witness ==
    /\ BuiltByAddRaw
    /\ a.type = EXPLICIT
    /\ b.type = SPARSE
    /\ \E o1 \in UnionOrders(a, b) :
           /\ union(a, b, o1).type \in {SPARSE, FULL}
           /\ Registers(union(a, b, o1)) # Registers(b)

\* C9: after a.union(b), a reports the cardinality of an estimator that
\* received a's values and then b's; when both were EXPLICIT and hold at most
\* explicit_threshold distinct values together, a is EXPLICIT and holds
\* exactly the union of the two sets.
C9_UnionMatchesFresh ==
    [][(BuiltByAddRaw /\ last'.op = "union") =>
         /\ cardinality(a') = cardinality(fresh[1])
         /\ (/\ a.type = EXPLICIT
             /\ b.type = EXPLICIT
             /\ Cardinality(ExplicitSet(a) \cup ExplicitSet(b)) <= a.explicit_threshold)
            => (/\ a'.type = EXPLICIT
                /\ ExplicitSet(a') = ExplicitSet(a) \cup ExplicitSet(b))]_vars

C9_Witness ==
    /\ last.op = "union"
    /\ fresh # None
    /\ last.from = EXPLICIT
    /\ b.type = EXPLICIT
    /\ a.type = EXPLICIT
    /\ ExplicitSet(a) # ExplicitSet(b)
    /\ cardinality(a) = 2

\* C10: union with an estimator of another log2m or regwidth is refused and
\* leaves self as it was.
C10_MismatchRefused ==
    [][((a.log2m # b.log2m \/ a.regwidth # b.regwidth) /\ last'.op = "union") =>
         (UnionRaises(a, b) /\ a' = a)]_vars

\* C11: whenever a public operation (construction, add_raw, union, clear,
\* from_bytes) has returned, the storage that the type of the estimator names
\* is the only one of the three that is held: EMPTY holds none, and the
\* storage of the type the estimator left has been dropped.
C11_OneStorageLive ==
    \A h \in {a, b} :
        /\ (h.explicit_storage # None) <=> (h.type = EXPLICIT)
        /\ (h.sparse_probabilistic_storage # None) <=> (h.type = SPARSE)
        /\ (h.probabilistic_storage # None) <=> (h.type = FULL)

C11_Witness ==
    /\ last.op = "add_raw"
    /\ last.target = "a"
    /\ last.from = SPARSE
    /\ a.type = FULL
    /\ a.sparse_probabilistic_storage = None
    /\ a.probabilistic_storage # None

\* C12: clear keeps the type of the estimator, whichever it is, and leaves the
\* storage of that type without contents; cardinality is 0 right after it.
C12_ClearKeepsTypeAndEmpties ==
    last.op = "clear" =>
        /\ a.type = last.from
        /\ a.type = EXPLICIT => a.explicit_storage = << {} >>
        /\ a.type = SPARSE => a.sparse_probabilistic_storage = << << >> >>
        /\ a.type = FULL =>
               \A j \in 0..(a.m - 1) : get_register(a.probabilistic_storage[1], j) = 0
        /\ cardinality(a) = 0

C12_Witness ==
    /\ last.op = "clear"
    /\ last.from = FULL
    /\ a.type = FULL
    /\ cardinality(a) = 0

\* C13: cardinality is 0 for an EMPTY estimator; for an EXPLICIT one it is
\* exactly the number of distinct raw values add_raw received since the
\* construction or the last clear, so adding a value again does not change it.
C13_ExplicitCardinalityIsCount ==
    /\ a.type = EMPTY => cardinality(a) = 0
    /\ (a.type = EXPLICIT /\ added # None) =>
           cardinality(a) = Cardinality(added[1].values)

C13_Witness ==
    /\ added # None
    /\ last.op = "add_raw"
    /\ a.type = EXPLICIT
    /\ added[1].calls > Cardinality(added[1].values)
    /\ cardinality(a) = 2

\* C14: add_raw on an EXPLICIT estimator leaves it EXPLICIT as long as the
\* number of distinct values it then holds is at most explicit_threshold; the
\* add_raw that takes the number past the threshold leaves it SPARSE when the
\* sparse representation is enabled and FULL when it is disabled.
C14_ExplicitPromotion ==
    [][\A v \in RawValues :
          (AddRawA(v) /\ a.type = EXPLICIT) =>
              a'.type = IF Cardinality(a.explicit_storage[1] \cup {v}) <= a.explicit_threshold
                        THEN EXPLICIT
                        ELSE IF a.sparse_off THEN FULL ELSE SPARSE]_vars

C14_Witness ==
    /\ last.op = "add_raw"
    /\ last.from = EXPLICIT
    /\ a.type = FULL
    /\ a.sparse_off
    /\ a.explicit_threshold = 2

\* C15: add_raw on a SPARSE estimator, and union of two SPARSE estimators,
\* leave the estimator SPARSE when it then has at most sparse_threshold
\* nonzero registers (exactly sparse_threshold included) and FULL when it has
\* more.
C15_SparsePromotion ==
    [][LET nonzero(h) == Cardinality({j \in 1..h.m : Registers(h)[j] # 0})
           kept(h) == IF nonzero(h) <= h.sparse_threshold THEN SPARSE ELSE FULL
       IN /\ (last'.op = "add_raw" /\ last'.target = "a" /\ a.type = SPARSE) =>
                 a'.type = kept(a')
          /\ (last'.op = "add_raw" /\ last'.target = "b" /\ b.type = SPARSE) =>
                 b'.type = kept(b')
          /\ (last'.op = "union" /\ a.type = SPARSE /\ b.type = SPARSE) =>
                 a'.type = kept(a')]_vars

C15_Witness ==
    /\ last.op = "union"
    /\ last.from = SPARSE
    /\ b.type = SPARSE
    /\ a.type = FULL
    /\ Cardinality({j \in 1..a.m : Registers(a)[j] # 0}) = a.sparse_threshold + 1

\* C16: the first add_raw on an EMPTY estimator leaves it EXPLICIT when
\* explicit_threshold > 0, otherwise SPARSE when the sparse representation is
\* enabled, otherwise FULL; so no estimator is EMPTY when add_raw returns.
C16_FirstAddRaw ==
    [][\A v \in RawValues :
          AddRawA(v) =>
              /\ a'.type # EMPTY
              /\ a.type = EMPTY =>
                     a'.type = IF a.explicit_threshold > 0 THEN EXPLICIT
                               ELSE IF ~a.sparse_off THEN SPARSE
                               ELSE FULL]_vars

C16_Witness ==
    /\ last.op = "add_raw"
    /\ last.from = EMPTY
    /\ a.type = FULL
    /\ a.explicit_threshold = 0
    /\ ~a.explicit_off

\* C17: add_raw(v) on a SPARSE or FULL estimator, when the bits of v from
\* log2m upward are not all zero, sets register v & (m - 1) to the larger of
\* its value and min(1 + index of the lowest of those bits, 2^regwidth - 1),
\* and leaves every other register as it was.
C17_RegisterUpdate ==
    [][\A v \in RegisterValues :
          LET sub == {i \in v : i >= a.log2m}
              lowest == CHOOSE i \in sub : \A k \in sub : i <= k
              rank == Min(1 + (lowest - a.log2m), 2^a.regwidth - 1)
              j == CHOOSE k \in 0..(a.m - 1) : LongOfInt(k) = {i \in v : i < a.log2m}
          IN (a.type \in {SPARSE, FULL} /\ sub # {} /\ last'.target = "a" /\ AddRawA(v)) =>
                 /\ a'.type \in {SPARSE, FULL}
                 /\ Registers(a') =
                        [Registers(a) EXCEPT ![j + 1] = IF @ >= rank THEN @ ELSE rank]]_vars

C17_Witness ==
    /\ last.op = "add_raw"
    /\ last.target = "a"
    /\ last.from = FULL
    /\ a.regwidth = 1
    /\ Registers(a)[4] = 1

\* C18: across add_raw and union calls, no register of an estimator ever
\* goes down, a register absent from the sparse map counting as 0; this
\* includes the calls that promote SPARSE to FULL.
C18_RegistersNeverDecrease ==
    [][LET held(h) == IF h.type \in {SPARSE, FULL} THEN Registers(h)
                      ELSE [j \in 1..h.m |-> 0]
       IN last'.op \in {"add_raw", "union"} =>
              \A before \in {<< held(a), held(b) >>}, after \in {<< held(a'), held(b') >>} :
                  \A h \in 1..2, j \in 1..a.m : after[h][j] >= before[h][j]]_vars

C18_Witness ==
    /\ last.op = "add_raw"
    /\ last.target = "a"
    /\ last.from = SPARSE
    /\ a.type = FULL
    /\ Cardinality({j \in 1..a.m : Registers(a)[j] = 1}) = a.sparse_threshold + 1

C20_UnionIsRegisterMax ==
    [][(last'.op = "union" /\ a.type = b.type /\ a.type \in {SPARSE, FULL}) =>
           \A mine \in {Registers(a)}, theirs \in {Registers(b)}, merged \in {Registers(a')} :
               \A j \in 1..a.m :
                   /\ merged[j] = IF mine[j] >= theirs[j] THEN mine[j] ELSE theirs[j]
                   /\ (mine[j] = 0 /\ theirs[j] = 0) => merged[j] = 0]_vars

C20_Witness ==
    /\ last.op = "union"
    /\ last.from = SPARSE
    /\ a.type = SPARSE
    /\ b.type = SPARSE
    /\ \E j, k \in 1..a.m :
           /\ Registers(a)[j] > Registers(b)[j]
           /\ Registers(b)[j] > 0
           /\ Registers(a)[k] > 0
           /\ Registers(b)[k] = 0

\* C29: whenever an estimator a reached by add_raw, union, clear and round
\* trips through to_bytes and from_bytes (or b, reached by add_raw) is SPARSE,
\* every key of its register map is a register index in 0..m-1 and every value
\* stored is in 1..2^regwidth - 1: no zero is stored.
C29_SparseMapWellFormed ==
    \A h \in {a, b} :
        h.type = SPARSE =>
            \A k \in DOMAIN h.sparse_probabilistic_storage[1] :
                /\ k \in 0..(h.m - 1)
                /\ h.sparse_probabilistic_storage[1][k] \in 1..(2^h.regwidth - 1)

C29_Witness ==
    /\ last.op = "round_trip"
    /\ a.type = SPARSE
    /\ Cardinality(DOMAIN a.sparse_probabilistic_storage[1]) = a.sparse_threshold
    /\ \E k \in DOMAIN a.sparse_probabilistic_storage[1] :
           a.sparse_probabilistic_storage[1][k] = 2^a.regwidth - 1

\* C23: to_bytes returns 3 bytes for EMPTY, 3 + 8n bytes for EXPLICIT with n
\* values, 3 + ceil(n (log2m + regwidth) / 8) bytes for SPARSE with n nonzero
\* registers and 3 + ceil(m regwidth / 8) bytes for FULL, whatever the
\* registers hold.
C23_ToBytesLength ==
    LET ceil8(bits) == (bits + 7) \div 8
        n == IF a.type = EXPLICIT THEN Cardinality(a.explicit_storage[1])
             ELSE Cardinality({j \in 1..a.m : Registers(a)[j] # 0})
    IN Len(to_bytes(a)) =
           CASE a.type = EMPTY -> 3
             [] a.type = EXPLICIT -> 3 + 8 * n
             [] a.type = SPARSE -> 3 + ceil8(n * (a.log2m + a.regwidth))
             [] a.type = FULL -> 3 + ceil8(a.m * a.regwidth)

C23_Witness ==
    /\ last.op = "add_raw"
    /\ a.type = SPARSE
    /\ a.regwidth = 1
    /\ Len(to_bytes(a)) = 5

\* C30: the payload of to_bytes (the bytes after the three header bytes) is,
\* for EXPLICIT, the stored values as 64-bit words in ascending order of their
\* signed values and, for SPARSE, one word of log2m + regwidth bits per nonzero
\* register in ascending order of the register index, of value
\* index * 2^regwidth + register value; the words are laid out highest bit
\* first, one after the other, and the bits left in the last byte are 0.
C30_CanonicalPayload ==
    LET bytes == to_bytes(a)
        payloadBit(i) == (7 - (i % 8)) \in ByteBits(bytes[4 + (i \div 8)])
        laidOut(W, bitOfWord(_, _), n) ==
            \A i \in 0..(8 * (Len(bytes) - 3) - 1) :
                payloadBit(i) <=> (i < n * W /\ bitOfWord(1 + (i \div W), W - 1 - (i % W)))
        signedLess(x, y) ==
            IF (63 \in x) # (63 \in y) THEN 63 \in x
            ELSE \E i \in y \ x : \A j \in x \ y : j < i
    IN /\ a.type = EXPLICIT =>
           \E ws \in Orders(a.explicit_storage[1]) :
               /\ \A k \in 1..(Len(ws) - 1) : signedLess(ws[k], ws[k + 1])
               /\ LET bitOf(k, p) == p \in ws[k] IN laidOut(64, bitOf, Len(ws))
       /\ a.type = SPARSE =>
           \E regs \in {Registers(a)} :
               \E js \in Orders({j \in 0..(a.m - 1) : regs[j + 1] # 0}) :
                   /\ \A k \in 1..(Len(js) - 1) : js[k] < js[k + 1]
                   /\ LET word(k) == js[k] * (2^a.regwidth) + regs[js[k] + 1]
                          bitOf(k, p) == (word(k) \div (2^p)) % 2 = 1
                      IN laidOut(a.log2m + a.regwidth, bitOf, Len(js))

C30_Witness ==
    /\ last.op = "add_raw"
    /\ a.type = EXPLICIT
    /\ RawValue(1) \in a.explicit_storage[1]
    /\ RawValue(3) \in a.explicit_storage[1]
    /\ to_bytes(a)[4] = -1

C25_Log2mRangeChecked ==
    [][(/\ last'.op = "new"
        /\ last.op = "arguments"
        /\ (last.args[1] < MINIMUM_LOG2M_PARAM \/ last.args[1] > MAXIMUM_LOG2M_PARAM)
        /\ last.args[2] \in MINIMUM_REGWIDTH_PARAM .. MAXIMUM_REGWIDTH_PARAM
        /\ last.args[3] \in MINIMUM_EXPTHRESH_PARAM .. MAXIMUM_EXPTHRESH_PARAM)
         => (last'.raised = "log2m" /\ a' = a)]_vars

\* C24: the frame describes its estimator: from_bytes(to_bytes(h)) has the
\* log2m, the regwidth, the sparse flag and the explicit mode of h (off, auto,
\* or the same fixed explicit_threshold), and the three header bytes alone
\* carry them.
C24_HeaderDescribesEstimator ==
    [][last'.op = "round_trip" =>
         \A md \in {read_metadata(SubSeq(to_bytes(a), 1, HEADER_BYTE_COUNT))} :
           /\ a'.log2m = a.log2m
           /\ a'.regwidth = a.regwidth
           /\ a'.sparse_off = a.sparse_off
           /\ a'.explicit_auto = a.explicit_auto
           /\ a'.explicit_off = a.explicit_off
           /\ a'.explicit_threshold = a.explicit_threshold
           /\ md.register_count_log2 = a.log2m
           /\ md.register_width = a.regwidth
           /\ md.sparse_enabled = ~a.sparse_off
           /\ md.explicit_auto = a.explicit_auto
           /\ md.explicit_off = a.explicit_off
           /\ (~(a.explicit_auto \/ a.explicit_off)
                 => left_shift_int(1, md.log2_explicit_cutoff) = a.explicit_threshold)]_vars

C24_Witness ==
    /\ last.op = "round_trip"
    /\ a.log2m = MAXIMUM_LOG2M_PARAM
    /\ a.explicit_threshold = MAXIMUM_EXPLICIT_THRESHOLD
    /\ ~a.explicit_auto
    /\ a.sparse_off

\* C28: from_bytes fails on a frame whose version nibble is not 1, on a frame
\* whose type ordinal is not one of 1..4, and on a FULL frame that carries
\* fewer payload bytes than its m registers of regwidth bits need.
C28_FromBytesRefuses ==
    last.op = "from_bytes" =>
        \A first \in {(last.bytes[1] + 256) % 256} :
            /\ first \div 16 # 1 => last.failed
            /\ first % 16 \notin 1..4 => last.failed
            /\ (/\ first % 16 = 4
                /\ Len(last.bytes) - 3 < (a.m * a.regwidth + 7) \div 8) => last.failed

C28_Witness ==
    /\ last.op = "from_bytes"
    /\ last.from = FULL
    /\ (last.bytes[1] + 256) % 256 = 20
    /\ Len(last.bytes) = 3 + ((a.m * a.regwidth + 7) \div 8) - 1
    /\ last.failed
    /\ a.regwidth = 2

\* C26: the word codec round-trips: for a word length W in 1..64 and a padding
\* P >= 0, the words written to a serializer(W, n, P), each fitting in W bits,
\* are the words a deserializer(W, P, bytes) reads back, in order and without
\* raising; for W = 64 bit 63, the sign bit, comes back as written.
C26_CodecRoundTrip ==
    /\ codec.call = "read_word" => ~codec.raised
    /\ \A k \in 1..Len(codec.read) :
          k <= Len(codec.written) => codec.read[k] = codec.written[k]

C26_Witness ==
    /\ codec.serializer.word_length = LONG_BIT_LENGTH
    /\ codec.byte_padding = HEADER_BYTE_COUNT
    /\ Len(codec.read) = 2
    /\ codec.read[1] = {LONG_BIT_LENGTH - 1}
    /\ codec.read[2] = LongBits

\* C27: a serializer sized for n words accepts exactly n write_word calls: a
\* further write_word fails and leaves the byte array (and the rest of the
\* serializer) unchanged; get_bytes fails while fewer than n words have been
\* written and succeeds once n have.
C27_SerializerCapacity ==
    [][/\ codec'.call = "write_word" =>
            /\ codec'.raised <=> Len(codec.written) = codec.serializer.word_count
            /\ codec'.raised => codec'.serializer = codec.serializer
            /\ ~codec'.raised => Len(codec'.written) = Len(codec.written) + 1
       /\ codec'.call = "get_bytes" =>
            /\ codec'.raised <=> Len(codec.written) < codec.serializer.word_count
            /\ codec'.serializer = codec.serializer]_vars

C27_Witness ==
    /\ codec.call = "write_word"
    /\ codec.raised
    /\ codec.returned
    /\ Len(codec.written) = 2
    /\ codec.serializer.word_length = 5
    /\ codec.written[2] = {0}

\* the registers of a vector as get_register reads them, one by one
RegistersRead(bv) == [j \in 0..(bv.count - 1) |-> get_register(bv, j)]

\* the bits of the last word that lie above the last register
BitsBeyond(bv) ==
    {k \in bv.words[Len(bv.words)] :
        k + BITS_PER_WORD * (Len(bv.words) - 1) >= bv.count * bv.register_width}

\* C31: set_register then get_register round-trips and is framed: for a value
\* that fits the register width, after set_register(i, v) get_register(i) is v
\* and get_register(j) is as before for every other j, also for registers that
\* lie across two 64-bit words.
C31_SetThenGet ==
    [][(/\ vector'.call = "set_register"
        /\ vector'.value < 2^vector.bv.register_width)
         => \A before \in {RegistersRead(vector.bv)}, after \in {RegistersRead(vector'.bv)} :
              after = [before EXCEPT ![vector'.index] = vector'.value]]_vars

C31_Witness ==
    /\ vector.call = "set_register"
    /\ vector.bv.register_width = 5
    /\ vector.index = 12
    /\ vector.value = 1
    /\ RegistersRead(vector.bv) = [j \in 0..13 |-> IF j = 12 THEN 1 ELSE 31]

\* C32: set_register(i, v) and fill(v) write v & value_mask for any v, also one
\* wider than a register: afterwards get_register(i) is v & value_mask (every
\* register, for fill), no other register has changed, and no bit of the
\* words above bit m * regwidth - 1 has changed.
C32_WritesAreMasked ==
    [][/\ vector'.call = "set_register" =>
            /\ RegistersRead(vector'.bv) =
                   [RegistersRead(vector.bv) EXCEPT
                       ![vector'.index] = vector'.value % (2^vector.bv.register_width)]
            /\ BitsBeyond(vector'.bv) = BitsBeyond(vector.bv)
       /\ vector'.call = "fill" =>
            /\ RegistersRead(vector'.bv) =
                   [j \in 0..(vector.bv.count - 1) |->
                       vector'.value % (2^vector.bv.register_width)]
            /\ BitsBeyond(vector'.bv) = BitsBeyond(vector.bv)]_vars

\* C33: set_max_register(i, v), for a value that fits the register width,
\* leaves the vector as set_register(i, max(get_register(i), v)) would, for
\* registers within a word and across two words, and returns true exactly
\* when v is greater than or equal to the value the register had.
C33_SetMaxIsSetOfMax ==
    [][(/\ vector'.call = "set_max_register"
        /\ vector'.value < 2^vector.bv.register_width)
         => \A was \in {get_register(vector.bv, vector'.index)} :
              /\ vector'.bv = set_register(vector.bv, vector'.index,
                                           IF was > vector'.value THEN was
                                           ELSE vector'.value)
              /\ vector'.result = (vector'.value >= was)]_vars

C33_Witness ==
    /\ vector.call = "set_max_register"
    /\ vector.bv.register_width = 7
    /\ vector.index = 9
    /\ vector.value = 1
    /\ vector.result = FALSE
    /\ get_register(vector.bv, 9) = 127

\* C34: register_iterator yields exactly count values and then stops, and its
\* k-th value is get_register(k), for every register width 1..8: those that do
\* not divide 64 and those for which a word is used up exactly.
C34_IteratorReadsRegisters ==
    vector.call = "register_iterator" =>
        /\ Len(vector.result) = vector.bv.count
        /\ \A k \in 0..(vector.bv.count - 1) :
              vector.result[k + 1] = get_register(vector.bv, k)

C34_Witness ==
    /\ vector.call = "register_iterator"
    /\ vector.bv.register_width = 3
    /\ Len(vector.result) = 23
    /\ vector.result[22] = 7
    /\ vector.result[21] = 1
    /\ vector.result[23] = 0

\* C38: pack_parameters_byte(regwidth, log2m) returns the value
\* ((regwidth - 1) << 5) | log2m, so that pack_parameters_byte(5, 5) is 0x85
\* (133), and register_width and register_count_log2 applied to the byte give
\* back regwidth and log2m, for every regwidth in 1..8 and log2m in 0..31.
C38_ParametersByte ==
    last.op = "pack_parameters_byte" =>
        /\ last.byte = (last.args[1] - 1) * 32 + last.args[2]
        /\ last.register_width = last.args[1]
        /\ last.register_count_log2 = last.args[2]

\* C35: over the bytes a serializer returned for n words of width W behind P
\* padding bytes, the deserializer's total_word_count() is n when W >= 8 and
\* at least n when W < 8, and every word read at position n or beyond is 0.
C35_TotalWordCount ==
    codec.returned =>
        \A d \in {NewDeserializer(codec.serializer.word_length, codec.byte_padding,
                                   get_bytes(codec.serializer))} :
            /\ codec.serializer.word_length >= BITS_PER_BYTE =>
                    total_word_count(d) = Len(codec.written)
            /\ codec.serializer.word_length < BITS_PER_BYTE =>
                    total_word_count(d) >= Len(codec.written)
            /\ \A k \in 1..Len(codec.read) :
                    k > Len(codec.written) => codec.read[k] = {}

C35_Witness ==
    /\ codec.serializer.word_length = 5
    /\ codec.byte_padding = HEADER_BYTE_COUNT
    /\ codec.written = << 0..4, 0..4 >>
    /\ codec.call = "read_word"
    /\ Len(codec.read) = 3
    /\ codec.read[3] = {}

\* C36: promotion loses nothing.  When add_raw promotes EXPLICIT to SPARSE or
\* FULL, each register of the new representation is the largest rank among the
\* values of the explicit set, the value of this call included, that fall into
\* it (0 when none does); when add_raw promotes SPARSE to FULL, each register
\* of the vector is the sparse map's value for it, 0 when the map has none.
C36_PromotionLosesNothing ==
    [][(last'.op = "add_raw" /\ last'.target = "a" /\ a'.type # a.type
            /\ a.type \in {EXPLICIT, SPARSE}) =>
          \A v \in RegisterValues :
              LET sub(w) == {i \in w : i >= a.log2m}
                  rank(w) == IF sub(w) = {} THEN 0
                             ELSE Min(1 + ((CHOOSE i \in sub(w) : \A k \in sub(w) : i <= k)
                                            - a.log2m),
                                      2^a.regwidth - 1)
                  index(w) == CHOOSE k \in 0..(a.m - 1) :
                                  LongOfInt(k) = {i \in w : i < a.log2m}
                  largest(S) == CHOOSE x \in S : \A y \in S : x >= y
              IN AddRawA(v) =>
                   /\ a.type = EXPLICIT =>
                        /\ a'.type \in {SPARSE, FULL}
                        /\ Registers(a') =
                              [j \in 1..a.m |->
                                  largest({0} \cup {rank(w) : w \in
                                      {x \in a.explicit_storage[1] \cup {v} :
                                          index(x) = j - 1}})]
                   /\ a.type = SPARSE =>
                        /\ a'.type = FULL
                        /\ Registers(a') =
                              [Registers(a) EXCEPT ![index(v) + 1] =
                                  IF @ >= rank(v) THEN @ ELSE rank(v)]]_vars

C36_Witness ==
    /\ last.op = "add_raw"
    /\ last.target = "a"
    /\ last.from = EXPLICIT
    /\ a.type = SPARSE
    /\ a.regwidth = 2
    /\ Registers(a)[3] = 3
    /\ Cardinality({j \in 1..a.m : Registers(a)[j] # 0}) = 1

\* C37: an estimator with the sparse representation disabled that is not
\* SPARSE is not SPARSE after add_raw, clear or union either, so one
\* constructed EMPTY, EXPLICIT or FULL never becomes SPARSE; a union whose
\* other operand is SPARSE leaves it FULL, holding the incoming registers
\* (exactly those when it was EMPTY).
C37_NeverSparseWhenOff ==
    [][/\ (a.sparse_off /\ a.type # SPARSE) => a'.type # SPARSE
       /\ (last'.op = "union" /\ a.sparse_off /\ a.type # SPARSE /\ b.type = SPARSE) =>
              /\ a'.type = FULL
              /\ \A j \in 1..a.m : Registers(a')[j] >= Registers(b)[j]
              /\ a.type = EMPTY => Registers(a') = Registers(b)]_vars

C37_Witness ==
    /\ last.op = "union"
    /\ last.from = EXPLICIT
    /\ a.sparse_off
    /\ b.type = SPARSE
    /\ a.type = FULL
    /\ Cardinality({j \in 1..a.m : Registers(b)[j] # 0}) = 2
    /\ Cardinality({j \in 1..a.m : Registers(a)[j] # 0}) = 3

\* C39: for SPARSE and FULL, cardinality() is the ceiling of: the small-range
\* value m * ln(m / V) when V > 0 registers are zero and the raw estimate
\* E = alpha_m_squared / sum(2^-M[j]) is below 5m/2; otherwise E itself when
\* E <= 2^L / 30, L = log2m + 2^regwidth - 2; otherwise the large-range value
\* -2^L * ln(1 - E / 2^L), replaced by 0 when E >= 2^L.  The result is never
\* negative, and a SPARSE and a FULL estimator holding the same registers
\* return the same result.  (E is the fraction eNum / eDen; the two logarithms
\* are read from the tables of their rounded-up values.)
C39_EstimatorBranches ==
    last.op = "cardinality" =>
        LET M == Registers(a)
            V == Cardinality({j \in 1..a.m : M[j] = 0})
            top == 2^a.regwidth - 1
            scaled == SumSeq([j \in 1..a.m |-> 2^(top - M[j])])
            eNum == alpha_m_squared(a.m)[1] * 2^top
            eDen == alpha_m_squared(a.m)[2] * scaled
            twoToL == 2^(a.log2m + 2^a.regwidth - 2)
            small == V > 0 /\ 2 * eNum < 5 * a.m * eDen
            unchanged == ~small /\ 30 * eNum <= twoToL * eDen
            large == ~small /\ ~unchanged
        IN /\ small => last.result = SMALL_ESTIMATOR_CEIL[V]
           /\ unchanged => /\ last.result * eDen >= eNum
                           /\ (last.result - 1) * eDen < eNum
           /\ (large /\ eNum >= twoToL * eDen) => last.result = 0
           /\ (large /\ eNum < twoToL * eDen) =>
                  /\ last.result = LARGE_ESTIMATOR_CEIL[a.regwidth][scaled - 15]
                  /\ last.result * eDen >= eNum
           /\ last.result >= 0
           /\ Registers(b) = M
           /\ last.other = last.result

C39_Witness ==
    /\ last.op = "cardinality"
    /\ a.type = FULL
    /\ b.type = SPARSE
    /\ a.regwidth = 3
    /\ Cardinality({j \in 1..a.m : Registers(a)[j] = 0}) = 1
    /\ Cardinality({j \in 1..a.m : Registers(a)[j] = 7}) = 15
    /\ last.result = 168
    /\ last.other = 168

\* C40: with EXPLICIT disabled, add_raw of a value whose bits from log2m
\* upward are all zero (0x1 with log2m = 4) sets no register: an EMPTY
\* estimator becomes SPARSE (FULL when SPARSE is disabled) with every register
\* zero, cardinality() is still 0 and, for SPARSE, to_bytes() has length 3; a
\* SPARSE or FULL estimator keeps its registers.
C40_RankZeroSetsNothing ==
    [][\A v \in {w \in RawValues : \A i \in w : i < MINIMUM_LOG2M_PARAM} :
          LET after(h, g) ==
                  /\ h.type = EMPTY =>
                        /\ g.type = IF h.sparse_off THEN FULL ELSE SPARSE
                        /\ \A j \in 1..h.m : Registers(g)[j] = 0
                        /\ cardinality(g) = 0
                        /\ g.type = SPARSE => Len(to_bytes(g)) = 3
                  /\ h.type \in {SPARSE, FULL} =>
                        /\ g.type = h.type
                        /\ Registers(g) = Registers(h)
          IN /\ (last'.op = "add_raw" /\ last'.target = "a" /\ a.explicit_off
                      /\ AddRawA(v)) => after(a, a')
             /\ (last'.op = "add_raw" /\ last'.target = "b" /\ b.explicit_off
                      /\ AddRawB(v)) => after(b, b')]_vars

C40_Witness ==
    /\ last.op = "add_raw"
    /\ last.target = "b"
    /\ last.from = EMPTY
    /\ b.explicit_off
    /\ b.type = SPARSE
    /\ \A j \in 1..b.m : Registers(b)[j] = 0
    /\ cardinality(b) = 0
    /\ Len(to_bytes(b)) = 3

====
